---- MODULE Spec2Model ----
(***************************************************************************)
(* Playhead synchronisation and transport-state reconciliation of the RNBO *)
(* playlist UI (playlist-ui.js v1.9, src/unnamed/part_003).                *)
(*                                                                         *)
(* Every handler of the script is a pure operator from a state record to a *)
(* state record; an action of the state machine applies one handler to the *)
(* current state.  Times are milliseconds (performance.now() and, scaled   *)
(* by 1000, context.currentTime); positions are milliseconds.              *)
(***************************************************************************)
EXTENDS Integers, Sequences, FiniteSets, TLC

VARIABLES
    manifest,               \* the names that the manifest lists (manifest.items)
    saved,                  \* the array of names persisted in localStorage
    items,                  \* ordered clip names (the items array)
    selectedIdx,            \* 0-based index into items
    isLoop,
    isPlayingUI,
    portPlayheadMs,         \* last raw telemetry value
    lastPortAt,             \* performance.now() of the last telemetry
    portOffsetMs,           \* rebase offset
    anchorCtxTime,          \* extrapolation anchor, context time (ms)
    anchorRawMs,            \* extrapolation anchor, position
    displayMs,
    didAutoResetAfterEOF,
    reverseEOFIgnoreUntil,
    pClipIndex, pRate, pLoop, pPlayTrig, pStopTrig, pJumpTo,  \* device parameters
    pOutGain,               \* the gain parameter
    rateVal, volVal,        \* the readouts beside the rate and the volume slider
    hasJumpTo,              \* the device exposes the optional jumpto parameter
    params,                 \* ids of the parameters that the device exposes
    phase,                  \* "ready" when initPlaylistUI got its parameters,
                            \* "failed" when ensureParam threw
    faulty,                 \* the parameters whose value cannot be written: the
                            \* assignment throws
    threw,                  \* the last handler let an exception escape
    now,                    \* performance.now()
    ctxTime,                \* context.currentTime * 1000
    ctxRunning,             \* context.state = "running"
    pendingPlay,            \* playFromBeginning calls awaiting context.resume()
    timers,                 \* pending setTimeout callbacks
    log,                    \* device writes made by the last handler
    recent,                 \* the last select, stop and play operations (at most
                            \* three) made in a row, nothing else in between;
                            \* << "dropped" >> after a report that was dropped
    tickStops,              \* stop pulses fired by ticks since the last user operation
    events,                 \* user operations and telemetry reports so far
    ss,                     \* the state of the Speak & Spell engine (speakspell-ui.js)
    v1,                     \* the state of the v1.0.1 engine (js/playlist-ui.js)
    jump,                   \* the last call of clampJumpToMs (v1.0.1 engine)
    pl,                     \* the playlist of the Speak & Spell engine: items, currentIndex, dragState
    led                     \* the state of the LED-ladder engine (js/playlist-ui.js, second script)

\* The variables of the playlist engine (part_003).
engineVars ==
    << manifest, saved, items, selectedIdx, isLoop, isPlayingUI, portPlayheadMs,
       lastPortAt, portOffsetMs, anchorCtxTime, anchorRawMs, displayMs,
       didAutoResetAfterEOF, reverseEOFIgnoreUntil,
       pClipIndex, pRate, pLoop, pPlayTrig, pStopTrig, pJumpTo, hasJumpTo,
       pOutGain, rateVal, volVal, params, phase, faulty, threw,
       now, ctxTime, ctxRunning, pendingPlay, timers, log, recent, tickStops, events >>

vars == << engineVars, ss, v1, jump, pl, led >>

---------------------------------------------------------------------------
\* Config (part_003 lines 34-41, 64) and the environment of the model.

PORT_FRESH_MS == 300
END_EPS_MS == 3
REVERSE_EOF_GRACE_MS == 140
REVERSE_LOOP_ASSIST_MS == 140
PULSE_MS == 20

\* Declared maximum of the jumpto parameter (ms range, not normalised 0..1).
JumpToDeclaredMax == 600000

\* Bounds of the model.
StartNow == 1000        \* performance.now() when initPlaylistUI completes
StepMs == 100           \* amount of time one Advance step lets pass
MaxSteps == 2           \* number of Advance steps in a behaviour
MaxEvents == 4          \* user operations and telemetry reports in a behaviour
MaxPending == 1         \* Play clicks that may wait for context.resume()
MaxNames == 3           \* length of a manifest and of a persisted array
LedMaxEvents == 3       \* inputs of the user in a behaviour of the LED-ladder model
Scale == 2              \* a position of the seek-clamp model is a multiple of 1 / Scale ms

ClipOrder == << "A", "B" >>            \* the playlist of the transport model
ClipOrderList == << "A", "B", "C" >>   \* the playlist of the reorder model
DurationOf(name) == CASE name = "A" -> 3000 [] name = "B" -> 5000 [] OTHER -> 3000

Rates == { -1, 0, 1, 2 }
TelemetryVals == { 0, 2, 1000, 2998, 7000 }
Vols == { 0, 1 }                \* positions of the volume slider
SeekFracs == { 0, 1, 2 }        \* progress-bar fraction, in halves
SeekDen == Cardinality(SeekFracs) - 1

Min2(a, b) == IF a < b THEN a ELSE b
Max2(a, b) == IF a > b THEN a ELSE b

\* JavaScript's % (the result takes the sign of the dividend).
JsRem(a, b) == IF a >= 0 THEN a % b ELSE -((-a) % b)

---------------------------------------------------------------------------
\* The current state as one record.

State ==
    [ items |-> items, selectedIdx |-> selectedIdx, isLoop |-> isLoop,
      isPlayingUI |-> isPlayingUI, portPlayheadMs |-> portPlayheadMs,
      lastPortAt |-> lastPortAt, portOffsetMs |-> portOffsetMs,
      anchorCtxTime |-> anchorCtxTime, anchorRawMs |-> anchorRawMs,
      displayMs |-> displayMs, didAutoResetAfterEOF |-> didAutoResetAfterEOF,
      reverseEOFIgnoreUntil |-> reverseEOFIgnoreUntil,
      pClipIndex |-> pClipIndex, pRate |-> pRate, pLoop |-> pLoop,
      pPlayTrig |-> pPlayTrig, pStopTrig |-> pStopTrig, pJumpTo |-> pJumpTo,
      hasJumpTo |-> hasJumpTo, now |-> now, ctxTime |-> ctxTime,
      ctxRunning |-> ctxRunning, pendingPlay |-> pendingPlay,
      timers |-> timers, log |-> << >>,
      pOutGain |-> pOutGain, rateVal |-> rateVal, volVal |-> volVal,
      faulty |-> faulty, threw |-> FALSE,
      manifest |-> manifest, saved |-> saved ]

Becomes(s) ==
    /\ items' = s.items
    /\ selectedIdx' = s.selectedIdx
    /\ isLoop' = s.isLoop
    /\ isPlayingUI' = s.isPlayingUI
    /\ portPlayheadMs' = s.portPlayheadMs
    /\ lastPortAt' = s.lastPortAt
    /\ portOffsetMs' = s.portOffsetMs
    /\ anchorCtxTime' = s.anchorCtxTime
    /\ anchorRawMs' = s.anchorRawMs
    /\ displayMs' = s.displayMs
    /\ didAutoResetAfterEOF' = s.didAutoResetAfterEOF
    /\ reverseEOFIgnoreUntil' = s.reverseEOFIgnoreUntil
    /\ pClipIndex' = s.pClipIndex
    /\ pRate' = s.pRate
    /\ pLoop' = s.pLoop
    /\ pPlayTrig' = s.pPlayTrig
    /\ pStopTrig' = s.pStopTrig
    /\ pJumpTo' = s.pJumpTo
    /\ hasJumpTo' = s.hasJumpTo
    /\ now' = s.now
    /\ ctxTime' = s.ctxTime
    /\ ctxRunning' = s.ctxRunning
    /\ pendingPlay' = s.pendingPlay
    /\ timers' = s.timers
    /\ log' = s.log
    /\ pOutGain' = s.pOutGain
    /\ rateVal' = s.rateVal
    /\ volVal' = s.volVal
    /\ faulty' = s.faulty
    /\ threw' = s.threw
    /\ manifest' = s.manifest
    /\ saved' = s.saved
    /\ UNCHANGED << params, phase, ss, v1, jump, pl, led >>

Write(param, value) == [ param |-> param, value |-> value ]
Wrote(s, param) == \E k \in 1..Len(s.log) : s.log[k].param = param

---------------------------------------------------------------------------
\* Helpers of the script.

clamp01num(n, d) == IF n < 0 THEN 0 ELSE IF n > d THEN d ELSE n

\* pulseParam(param, ms = 20): value := 1 now, value := 0 from a timer.  An
\* assignment that throws is caught, and no timer is set.
pulseParam(s, param) ==
    IF param \in s.faulty THEN s
    ELSE [ s EXCEPT ![param] = 1,
                    !.timers = @ \cup { [ kind |-> param, due |-> s.now + PULSE_MS ] },
                    !.log = Append(@, Write(param, 1)) ]

getRateNow(s) == s.pRate

supportsJumpTo(s) == s.hasJumpTo

HasItem(s) == s.selectedIdx >= 0 /\ s.selectedIdx < Len(s.items)
SelDuration(s) == IF HasItem(s) THEN DurationOf(s.items[s.selectedIdx + 1]) ELSE 0

\* setJumpToMs(targetMs, itemDurationMs): the value written, << num, den >> for
\* num / den, is in ms unless the parameter declares a maximum <= 1, when it is
\* the fraction ms / dur.  The log records the position in ms.
setJumpToMs(s, targetMs, itemDurationMs) ==
    IF ~supportsJumpTo(s) THEN s
    ELSE LET dur == Max2(0, itemDurationMs)
             ms == Max2(0, IF dur > 0 THEN Min2(targetMs, dur) ELSE targetMs)
             useNormalized == JumpToDeclaredMax <= 1
             v == IF useNormalized /\ dur > 0
                  THEN << clamp01num(ms, dur), dur >>
                  ELSE << ms, 1 >>
         IN IF "pJumpTo" \in s.faulty THEN s
            ELSE [ s EXCEPT !.pJumpTo = v, !.log = Append(@, Write("pJumpTo", ms)) ]

loadSelectedIntoRNBO(s) ==
    IF "pClipIndex" \in s.faulty THEN s
    ELSE [ s EXCEPT !.pClipIndex = s.selectedIdx,
                    !.log = Append(@, Write("pClipIndex", s.selectedIdx)) ]

resetUIToStart_keepDisplay(s) == [ s EXCEPT !.didAutoResetAfterEOF = TRUE ]

resetUIToStart(s) ==
    [ s EXCEPT !.displayMs = 0, !.didAutoResetAfterEOF = TRUE ]

getEffectiveRaw(s) == s.portPlayheadMs - s.portOffsetMs

\* normalizeForDisplay(rawMs, totalMs): the displayed position and whether the
\* end of the media is reached.
normalizeForDisplay_noGrace(s, rawMs, totalMs) ==
    IF totalMs <= 0 THEN [ display |-> 0, eof |-> FALSE ]
    ELSE IF s.isLoop
    THEN LET mod == JsRem(rawMs, totalMs)
         IN [ display |-> IF mod < 0 THEN mod + totalMs ELSE mod, eof |-> FALSE ]
    ELSE IF getRateNow(s) < 0 /\ rawMs <= END_EPS_MS
    THEN [ display |-> 0, eof |-> TRUE ]
    ELSE IF getRateNow(s) >= 0 /\ rawMs >= totalMs - END_EPS_MS
    THEN [ display |-> totalMs, eof |-> TRUE ]
    ELSE [ display |-> Max2(0, Min2(rawMs, totalMs)), eof |-> FALSE ]

normalizeForDisplay_noWrap(s, rawMs, totalMs) ==
    IF totalMs <= 0 THEN [ display |-> 0, eof |-> FALSE ]
    ELSE IF s.isLoop
    THEN [ display |-> JsRem(rawMs, totalMs), eof |-> FALSE ]
    ELSE IF getRateNow(s) < 0 /\ s.now >= s.reverseEOFIgnoreUntil /\ rawMs <= END_EPS_MS
    THEN [ display |-> 0, eof |-> TRUE ]
    ELSE IF getRateNow(s) >= 0 /\ rawMs >= totalMs - END_EPS_MS
    THEN [ display |-> totalMs, eof |-> TRUE ]
    ELSE [ display |-> Max2(0, Min2(rawMs, totalMs)), eof |-> FALSE ]

normalizeForDisplay_wideEnd(s, rawMs, totalMs) ==
    IF totalMs <= 0 THEN [ display |-> 0, eof |-> FALSE ]
    ELSE IF s.isLoop
    THEN LET mod == JsRem(rawMs, totalMs)
         IN [ display |-> IF mod < 0 THEN mod + totalMs ELSE mod, eof |-> FALSE ]
    ELSE IF getRateNow(s) < 0 /\ s.now >= s.reverseEOFIgnoreUntil /\ rawMs <= END_EPS_MS
    THEN [ display |-> 0, eof |-> TRUE ]
    ELSE IF getRateNow(s) >= 0 /\ rawMs >= totalMs - 10 * END_EPS_MS
    THEN [ display |-> totalMs, eof |-> TRUE ]
    ELSE [ display |-> Max2(0, Min2(rawMs, totalMs)), eof |-> FALSE ]

normalizeForDisplay_noClamp(s, rawMs, totalMs) ==
    IF totalMs <= 0 THEN [ display |-> 0, eof |-> FALSE ]
    ELSE IF s.isLoop
    THEN LET mod == JsRem(rawMs, totalMs)
         IN [ display |-> IF mod < 0 THEN mod + totalMs ELSE mod, eof |-> FALSE ]
    ELSE IF getRateNow(s) < 0 /\ s.now >= s.reverseEOFIgnoreUntil /\ rawMs <= END_EPS_MS
    THEN [ display |-> 0, eof |-> TRUE ]
    ELSE IF getRateNow(s) >= 0 /\ rawMs >= totalMs - END_EPS_MS
    THEN [ display |-> totalMs, eof |-> TRUE ]
    ELSE [ display |-> rawMs, eof |-> FALSE ]

normalizeForDisplay(s, rawMs, totalMs) ==
    IF totalMs <= 0 THEN [ display |-> 0, eof |-> FALSE ]
    ELSE IF s.isLoop
    THEN LET mod == JsRem(rawMs, totalMs)
         IN [ display |-> IF mod < 0 THEN mod + totalMs ELSE mod, eof |-> FALSE ]
    ELSE IF getRateNow(s) < 0 /\ s.now >= s.reverseEOFIgnoreUntil /\ rawMs <= END_EPS_MS
    THEN [ display |-> 0, eof |-> TRUE ]
    ELSE IF getRateNow(s) >= 0 /\ rawMs >= totalMs - END_EPS_MS
    THEN [ display |-> totalMs, eof |-> TRUE ]
    ELSE [ display |-> Max2(0, Min2(rawMs, totalMs)), eof |-> FALSE ]

\* paintFromRaw(rawMs): sets displayMs; at the end of the media (loop off) it
\* leaves Playing, pulses the stop trigger and resets the display.
paintFromRaw_noReset(s, rawMs) ==
    IF ~HasItem(s) THEN s
    ELSE LET norm == normalizeForDisplay(s, rawMs, SelDuration(s))
             s1 == [ s EXCEPT !.displayMs = norm.display ]
         IN IF norm.eof /\ ~s.isLoop
            THEN pulseParam([ s1 EXCEPT !.isPlayingUI = FALSE ], "pStopTrig")
            ELSE s1

paintFromRaw(s, rawMs) ==
    IF ~HasItem(s) THEN s
    ELSE LET norm == normalizeForDisplay(s, rawMs, SelDuration(s))
             s1 == [ s EXCEPT !.displayMs = norm.display ]
         IN IF norm.eof /\ ~s.isLoop
            THEN resetUIToStart(pulseParam([ s1 EXCEPT !.isPlayingUI = FALSE ], "pStopTrig"))
            ELSE s1

\* seekToFrac(frac01, startIfPlaying), called with startIfPlaying = isPlayingUI
\* by the pointerdown and pointermove handlers of the progress bar.  The
\* fraction is num / SeekDen.
seekToFrac(s, num, startIfPlaying) ==
    IF ~HasItem(s) \/ ~supportsJumpTo(s) THEN s
    ELSE LET dur == SelDuration(s)
             targetMs == (clamp01num(num, SeekDen) * dur) \div SeekDen
             s1 == setJumpToMs(s, targetMs, dur)
             s2 == [ s1 EXCEPT !.portOffsetMs = s1.portPlayheadMs - targetMs,
                               !.anchorCtxTime = s1.ctxTime,
                               !.anchorRawMs = targetMs,
                               !.didAutoResetAfterEOF = FALSE ]
             s3 == paintFromRaw(s2, targetMs)
         IN IF startIfPlaying THEN [ s3 EXCEPT !.isPlayingUI = TRUE ] ELSE s3

\* arr.includes(x), and set.has(x) of new Set(arr).
includes(arr, x) == \E k \in 1..Len(arr) : arr[k] = x

\* The order in which initPlaylistUI loads the clips: the manifest's, unless
\* a non-empty array is persisted; then the persisted names that the manifest
\* lists, followed by the names of the manifest that are not persisted.
\* loadOrder() returning null (nothing stored, or no valid JSON) is the empty
\* array here: both take the manifest's order.
orderedNames(filenames, savedNames) ==
    IF Len(savedNames) > 0
    THEN LET keptTest(n) == includes(filenames, n)
             missingTest(n) == ~includes(savedNames, n)
         IN SelectSeq(savedNames, keptTest) \o SelectSeq(filenames, missingTest)
    ELSE filenames

\* Array.prototype.splice as the drop handler uses it (0-based positions).
RemoveAt(seq, i) == SubSeq(seq, 1, i) \o SubSeq(seq, i + 2, Len(seq))
InsertAt(seq, i, x) == SubSeq(seq, 1, i) \o << x >> \o SubSeq(seq, i + 1, Len(seq))

\* items.findIndex((x) => x.name === name), -1 when there is none.
findIndex(seq, name) ==
    IF \E k \in 1..Len(seq) : seq[k] = name
    THEN (CHOOSE k \in 1..Len(seq) :
            seq[k] = name /\ \A j \in 1..(k - 1) : seq[j] # name) - 1
    ELSE -1

\* The drop handler of a row: the row dragged from index from is dropped on the
\* row at index to.
dropRow(s, from, to) ==
    IF from = to THEN s
    ELSE LET moved == s.items[from + 1]
             spliced == InsertAt(RemoveAt(s.items, from), to, moved)
             \* read after the splice, as the handler does
             currentName == spliced[s.selectedIdx + 1]
             newSel == findIndex(spliced, currentName)
             \* saveOrder(items.map((x) => x.name))
             s1 == [ s EXCEPT !.items = spliced,
                              !.selectedIdx = IF newSel >= 0 THEN newSel ELSE 0,
                              !.saved = spliced ]
         IN resetUIToStart(loadSelectedIntoRNBO(s1))

\* setSelected(idx).  The await of loadSelectedIntoRNBO (an async function
\* without awaits) resumes in a microtask, before any other handler runs.
setSelected_unclamped(s, idx) ==
    LET s1 == [ s EXCEPT !.selectedIdx = idx,
                         !.isPlayingUI = FALSE,
                         !.portPlayheadMs = 0,
                         !.lastPortAt = 0,
                         !.portOffsetMs = 0,
                         !.anchorCtxTime = s.ctxTime,
                         !.anchorRawMs = 0,
                         !.didAutoResetAfterEOF = FALSE,
                         !.reverseEOFIgnoreUntil = 0 ]
    IN resetUIToStart(loadSelectedIntoRNBO(s1))

setSelected(s, idx) ==
    LET s1 == [ s EXCEPT !.selectedIdx = Max2(0, Min2(Len(s.items) - 1, idx)),
                         !.isPlayingUI = FALSE,
                         !.portPlayheadMs = 0,
                         !.lastPortAt = 0,
                         !.portOffsetMs = 0,
                         !.anchorCtxTime = s.ctxTime,
                         !.anchorRawMs = 0,
                         !.didAutoResetAfterEOF = FALSE,
                         !.reverseEOFIgnoreUntil = 0 ]
    IN resetUIToStart(loadSelectedIntoRNBO(s1))

\* playFromBeginning() after its "await primeAudio()".
playContinue_keepPort(s) ==
    LET s1 == pulseParam(s, "pStopTrig")
        s2 == [ s1 EXCEPT !.lastPortAt = 0,
                          !.portOffsetMs = 0,
                          !.anchorCtxTime = s.ctxTime,
                          !.anchorRawMs = 0,
                          !.didAutoResetAfterEOF = FALSE,
                          !.reverseEOFIgnoreUntil =
                              IF getRateNow(s) < 0 THEN s.now + REVERSE_EOF_GRACE_MS ELSE 0 ]
        s3 == resetUIToStart(s2)
        dur == SelDuration(s3)
        startMs == IF getRateNow(s3) < 0 THEN Max2(0, dur - 1) ELSE 0
        s4 == IF HasItem(s3) /\ supportsJumpTo(s3) /\ dur > 0
              THEN LET j == setJumpToMs(s3, startMs, dur)
                   IN [ j EXCEPT !.portOffsetMs = j.portPlayheadMs - startMs,
                                 !.anchorCtxTime = j.ctxTime,
                                 !.anchorRawMs = startMs ]
              ELSE s3
        s5 == [ s4 EXCEPT !.isPlayingUI = TRUE ]
    IN IF getRateNow(s5) < 0 /\ ~s5.isLoop /\ ~supportsJumpTo(s5)
             /\ "pLoop" \notin s5.faulty
       THEN LET a == [ s5 EXCEPT !.pLoop = 1, !.log = Append(@, Write("pLoop", 1)) ]
                b == pulseParam(a, "pPlayTrig")
            IN [ b EXCEPT !.timers = @ \cup
                    { [ kind |-> "pLoop", due |-> s.now + REVERSE_LOOP_ASSIST_MS ] } ]
       ELSE pulseParam(s5, "pPlayTrig")

playContinue(s) ==
    LET s1 == pulseParam(s, "pStopTrig")
        s2 == [ s1 EXCEPT !.portPlayheadMs = 0,
                          !.lastPortAt = 0,
                          !.portOffsetMs = 0,
                          !.anchorCtxTime = s.ctxTime,
                          !.anchorRawMs = 0,
                          !.didAutoResetAfterEOF = FALSE,
                          !.reverseEOFIgnoreUntil =
                              IF getRateNow(s) < 0 THEN s.now + REVERSE_EOF_GRACE_MS ELSE 0 ]
        s3 == resetUIToStart(s2)
        dur == SelDuration(s3)
        startMs == IF getRateNow(s3) < 0 THEN Max2(0, dur - 1) ELSE 0
        s4 == IF HasItem(s3) /\ supportsJumpTo(s3) /\ dur > 0
              THEN LET j == setJumpToMs(s3, startMs, dur)
                   IN [ j EXCEPT !.portOffsetMs = j.portPlayheadMs - startMs,
                                 !.anchorCtxTime = j.ctxTime,
                                 !.anchorRawMs = startMs ]
              ELSE s3
        s5 == [ s4 EXCEPT !.isPlayingUI = TRUE ]
    IN IF getRateNow(s5) < 0 /\ ~s5.isLoop /\ ~supportsJumpTo(s5)
             /\ "pLoop" \notin s5.faulty
       THEN LET a == [ s5 EXCEPT !.pLoop = 1, !.log = Append(@, Write("pLoop", 1)) ]
                b == pulseParam(a, "pPlayTrig")
            IN [ b EXCEPT !.timers = @ \cup
                    { [ kind |-> "pLoop", due |-> s.now + REVERSE_LOOP_ASSIST_MS ] } ]
       ELSE pulseParam(s5, "pPlayTrig")

\* playFromBeginning(): with the context running, primeAudio awaits nothing that
\* another task can precede; otherwise the rest waits for context.resume().
playFromBeginning_ifIdle(s) ==
    IF s.isPlayingUI THEN s
    ELSE IF s.ctxRunning THEN playContinue(s)
    ELSE [ s EXCEPT !.pendingPlay = @ + 1 ]

playFromBeginning(s) ==
    IF s.ctxRunning THEN playContinue(s)
    ELSE [ s EXCEPT !.pendingPlay = @ + 1 ]

RECURSIVE playPending(_, _)
playPending(s, n) == IF n = 0 THEN s ELSE playPending(playContinue(s), n - 1)

\* context.resume() completes: the waiting playFromBeginning calls continue,
\* in the order they were made.
contextResumed(s) ==
    playPending([ s EXCEPT !.ctxRunning = TRUE, !.pendingPlay = 0 ], s.pendingPlay)

stopNow_noReset(s) ==
    LET s1 == pulseParam(s, "pStopTrig")
        s2 == [ s1 EXCEPT !.isPlayingUI = FALSE,
                          !.portPlayheadMs = 0,
                          !.lastPortAt = 0,
                          !.portOffsetMs = 0,
                          !.anchorCtxTime = s.ctxTime,
                          !.anchorRawMs = 0,
                          !.didAutoResetAfterEOF = FALSE,
                          !.reverseEOFIgnoreUntil = 0 ]
        dur == SelDuration(s2)
    IN IF HasItem(s2) /\ supportsJumpTo(s2) /\ dur > 0
       THEN LET j == setJumpToMs(s2, 0, dur)
            IN [ j EXCEPT !.portOffsetMs = j.portPlayheadMs - 0,
                          !.anchorCtxTime = j.ctxTime,
                          !.anchorRawMs = 0 ]
       ELSE s2

stopNow(s) ==
    LET s1 == pulseParam(s, "pStopTrig")
        s2 == [ s1 EXCEPT !.isPlayingUI = FALSE,
                          !.portPlayheadMs = 0,
                          !.lastPortAt = 0,
                          !.portOffsetMs = 0,
                          !.anchorCtxTime = s.ctxTime,
                          !.anchorRawMs = 0,
                          !.didAutoResetAfterEOF = FALSE,
                          !.reverseEOFIgnoreUntil = 0 ]
        dur == SelDuration(s2)
        s3 == IF HasItem(s2) /\ supportsJumpTo(s2) /\ dur > 0
              THEN LET j == setJumpToMs(s2, 0, dur)
                   IN [ j EXCEPT !.portOffsetMs = j.portPlayheadMs - 0,
                                 !.anchorCtxTime = j.ctxTime,
                                 !.anchorRawMs = 0 ]
              ELSE s2
    IN resetUIToStart(s3)

\* The click handler of the loop button.
toggleLoop(s) ==
    LET wasLoop == s.isLoop
        s0 == [ s EXCEPT !.isLoop = ~wasLoop ]
        s1 == IF "pLoop" \in s.faulty THEN s0
              ELSE [ s0 EXCEPT !.pLoop = IF ~wasLoop THEN 1 ELSE 0,
                               !.log = Append(@, Write("pLoop", IF ~wasLoop THEN 1 ELSE 0)) ]
    IN IF wasLoop /\ ~s1.isLoop
       THEN LET desiredEffective == s1.displayMs
                s2 == [ s1 EXCEPT !.portOffsetMs = s1.portPlayheadMs - desiredEffective,
                                  !.anchorCtxTime = s1.ctxTime,
                                  !.anchorRawMs = desiredEffective ]
            IN paintFromRaw(s2, desiredEffective)
       ELSE paintFromRaw(s1, getEffectiveRaw(s1))

\* The input handler of the rate slider.  The assignment is not in a try
\* block: when it throws, the handler ends there.
setRate(s, v) ==
    IF "pRate" \in s.faulty THEN [ s EXCEPT !.threw = TRUE ]
    ELSE [ s EXCEPT !.pRate = v, !.rateVal = v, !.log = Append(@, Write("pRate", v)) ]

\* The input handler of the volume slider, like that of the rate slider.
setVol(s, v) ==
    IF "pOutGain" \in s.faulty THEN [ s EXCEPT !.threw = TRUE ]
    ELSE [ s EXCEPT !.pOutGain = v, !.volVal = v, !.log = Append(@, Write("pOutGain", v)) ]

\* The "playhead" subscriber of device.messageEvent, for a finite payload[0].
onPlayhead(s, v) ==
    LET s1 == [ s EXCEPT !.portPlayheadMs = v, !.lastPortAt = s.now ]
    IN [ s1 EXCEPT !.anchorCtxTime = s1.ctxTime, !.anchorRawMs = getEffectiveRaw(s1) ]

\* The values of Number(payload[0]) that are not finite numbers; "missing" is
\* an event without a payload (Number(undefined)).
NonFinite == { "NaN", "Infinity", "-Infinity", "missing" }

\* The subscriber of device.messageEvent: events of other tags and reports
\* that are not finite are dropped.  v is the number when kind = "finite".
messageEvent_noGuard(s, tag, kind, v) ==
    IF tag # "playhead" THEN s ELSE onPlayhead(s, v)

messageEvent(s, tag, kind, v) ==
    IF tag # "playhead" THEN s
    ELSE IF kind \in NonFinite THEN s
    ELSE onPlayhead(s, v)

\* The position a tick paints while Playing: the rebased telemetry while it is
\* fresh, the extrapolation from the anchor otherwise.
tickRaw(s) ==
    IF s.now - s.lastPortAt < PORT_FRESH_MS
    THEN getEffectiveRaw(s)
    ELSE LET elapsedMs == Max2(0, s.ctxTime - s.anchorCtxTime)
             rateNow == IF getRateNow(s) = 0 THEN 1 ELSE getRateNow(s)
         IN s.anchorRawMs + elapsedMs * rateNow

\* tick(), the requestAnimationFrame callback.
tick(s) ==
    IF s.isPlayingUI THEN paintFromRaw(s, tickRaw(s))
    ELSE IF ~s.didAutoResetAfterEOF THEN paintFromRaw(s, 0)
    ELSE s

\* A setTimeout callback: the reset of a pulsed trigger, or the revert of the
\* reverse-start loop assist.
timerFired(s, t) ==
    IF t.kind \in s.faulty THEN [ s EXCEPT !.timers = @ \ { t } ]
    ELSE [ s EXCEPT ![t.kind] = 0, !.timers = @ \ { t } ]

---------------------------------------------------------------------------
\* The rate control of the Speak & Spell engine (speakspell-ui.js), on a record
\* of the variables it reads and writes: rate, isPlaying, currentIndex, the
\* duration of the current item, and the rate and jumpto parameters.

FLIP_MARGIN_MS == 100

\* updateRate(val)
updateRate(r, val) ==
    LET prevRate == r.rate
        r1 == [ r EXCEPT !.rate = val, !.pRate = val ]
    IN IF r.isPlaying /\ r.currentIndex >= 0
       THEN IF prevRate >= 0 /\ val < 0
            THEN [ r1 EXCEPT !.jumpto = Max2(0, r.durationMs - FLIP_MARGIN_MS),
                             !.seeks = @ + 1 ]
            ELSE IF prevRate < 0 /\ val >= 0
            THEN [ r1 EXCEPT !.jumpto = FLIP_MARGIN_MS, !.seeks = @ + 1 ]
            ELSE r1
       ELSE r1

\* The engine's state is the record ss: currentIndex, isPlaying, isLoop, rate,
\* the duration of the current item, the device parameters (pRate, pLoop,
\* playTrig, stopTrig, jumpto), the index of the clip whose samples are in the
\* device's buffer, the uploads (device.setDataBuffer) that have not completed,
\* the pending setTimeout callbacks, whether the playhead polling runs, and the
\* clock.

SsItems == ClipOrderList
SsDuration(i) == DurationOf(SsItems[i + 1])

SS_PULSE_MS == 20           \* pulse(p)
START_MARGIN_MS == 100      \* play(): distance of the reverse start from the end
PLAY_DELAY_MS == 50         \* play(): delay of the play trigger
TEMP_LOOP_MS == 100         \* play(): life of the temporary loop

SsWrote(r, param) == \E k \in 1..Len(r.log) : r.log[k].param = param

\* setTimeout(callback, delay); tempLoop is the needsTempLoop that the callback
\* of play() has captured.
ss_setTimeout(r, kind, delay, tempLoop) ==
    [ r EXCEPT !.timers = @ \cup { [ kind |-> kind, due |-> r.now + delay,
                                     id |-> r.nextId, tempLoop |-> tempLoop ] },
               !.nextId = @ + 1 ]

\* pulse(p)
ss_pulse(r, p) ==
    ss_setTimeout([ r EXCEPT ![p] = 1, !.log = Append(@, Write(p, 1)) ],
                  p, SS_PULSE_MS, FALSE)

\* loadIntoRNBO(audioBuffer): device.setDataBuffer is started; thenPlay tells
\* that the caller awaits it and calls play() afterwards.
ss_loadIntoRNBO(r, i, thenPlay) ==
    [ r EXCEPT !.uploads = Append(@, [ idx |-> i, thenPlay |-> thenPlay ]) ]

\* selectIndex(i), up to its await.
ss_selectIndex(r, i, thenPlay) ==
    IF i < 0 \/ i >= Len(SsItems) THEN r
    ELSE ss_loadIntoRNBO([ r EXCEPT !.currentIndex = i, !.durationMs = SsDuration(i) ],
                         i, thenPlay)

\* play()
ss_play(r) ==
    IF r.currentIndex < 0 \/ ~r.isInitialized THEN r
    ELSE LET needsTempLoop == r.rate < 0 /\ ~r.isLoop
             r1 == IF needsTempLoop
                   THEN [ r EXCEPT !.pLoop = 1, !.log = Append(@, Write("pLoop", 1)) ]
                   ELSE r
             start == IF r.rate < 0 THEN Max2(0, r.durationMs - START_MARGIN_MS) ELSE 0
             r2 == [ r1 EXCEPT !.jumpto = start, !.log = Append(@, Write("jumpto", start)) ]
         IN ss_setTimeout(r2, "playStart", PLAY_DELAY_MS, needsTempLoop)

\* The callback that play() has scheduled.
ss_playStart(r, tempLoop) ==
    LET r1 == [ ss_pulse(r, "playTrig") EXCEPT !.isPlaying = TRUE, !.polling = TRUE ]
    IN IF tempLoop THEN ss_setTimeout(r1, "loopRevert", TEMP_LOOP_MS, FALSE) ELSE r1

\* stop()
ss_stop(r) ==
    [ ss_pulse(r, "stopTrig") EXCEPT !.isPlaying = FALSE, !.polling = FALSE ]

\* toggleLoop()
ss_toggleLoop(r) ==
    [ r EXCEPT !.isLoop = ~r.isLoop,
               !.pLoop = IF ~r.isLoop THEN 1 ELSE 0,
               !.log = Append(@, Write("pLoop", IF ~r.isLoop THEN 1 ELSE 0)) ]

\* nextTrack() and prevTrack(): selectIndex is not awaited.
ss_nextTrack(r) ==
    LET next == (r.currentIndex + 1) % Len(SsItems)
        r1 == ss_selectIndex(r, next, FALSE)
    IN IF r1.isPlaying THEN ss_play(r1) ELSE r1

ss_prevTrack(r) ==
    LET prev == (r.currentIndex - 1 + Len(SsItems)) % Len(SsItems)
        r1 == ss_selectIndex(r, prev, FALSE)
    IN IF r1.isPlaying THEN ss_play(r1) ELSE r1

\* A digit key: selectIndex(num), not awaited, then play().
ss_digitKey(r, num) ==
    IF num < Len(SsItems) THEN ss_play(ss_selectIndex(r, num, FALSE)) ELSE r

\* The click handler of a playlist row: await selectIndex(idx), then play().
ss_clickItem(r, idx) == ss_selectIndex(r, idx, TRUE)

\* The oldest upload completes: the samples are in the buffer, and a click
\* handler that awaited it goes on to play().
ss_uploadDone(r) ==
    LET u == Head(r.uploads)
        r1 == [ r EXCEPT !.buffer = u.idx, !.uploads = Tail(@) ]
    IN IF u.thenPlay THEN ss_play(r1) ELSE r1

\* A setTimeout callback runs.
ss_timerFired(r, t) ==
    LET r0 == [ r EXCEPT !.timers = @ \ { t } ]
        r1 == IF t.kind = "playStart" THEN ss_playStart(r0, t.tempLoop)
              ELSE IF t.kind = "loopRevert" THEN [ r0 EXCEPT !.pLoop = 0 ]
              ELSE [ r0 EXCEPT ![t.kind] = 0 ]
    IN IF r1.timers = { } THEN [ r1 EXCEPT !.nextId = 0 ] ELSE r1

\* The engine when its init has completed: the first clip is selected and
\* uploaded, the stop trigger has been pulsed.
SsInit ==
    [ currentIndex |-> 0, isPlaying |-> FALSE, isLoop |-> FALSE, rate |-> 1,
      isInitialized |-> TRUE, durationMs |-> SsDuration(0),
      pRate |-> 1, pLoop |-> 0, playTrig |-> 0, stopTrig |-> 1, jumpto |-> 0,
      seeks |-> 0, buffer |-> 0, uploads |-> << >>,
      timers |-> { [ kind |-> "stopTrig", due |-> SS_PULSE_MS, id |-> 0,
                     tempLoop |-> FALSE ] },
      nextId |-> 1, polling |-> FALSE, now |-> 0, log |-> << >>, events |-> 0 ]

\* The playlist of the engine is the record pl: the items array (the clips by
\* name), currentIndex (-1 before the first selection) and dragState.dragIndex
\* (-1 while no row is dragged: dragState.isDragging is false).

PlItems == << "A", "B", "C", "D" >>

\* reorderPlaylist(fromIndex, toIndex)
reorderPlaylist_noShiftUp(r, fromIndex, toIndex) ==
    LET to == IF toIndex > fromIndex THEN toIndex - 1 ELSE toIndex
        movedItem == r.items[fromIndex + 1]
        spliced == InsertAt(RemoveAt(r.items, fromIndex), to, movedItem)
        cur == r.currentIndex
    IN [ r EXCEPT !.items = spliced,
                  !.currentIndex =
                      IF cur = fromIndex THEN to
                      ELSE IF fromIndex < cur /\ to >= cur THEN cur - 1
                      ELSE cur ]

reorderPlaylist(r, fromIndex, toIndex) ==
    LET to == IF toIndex > fromIndex THEN toIndex - 1 ELSE toIndex
        movedItem == r.items[fromIndex + 1]
        spliced == InsertAt(RemoveAt(r.items, fromIndex), to, movedItem)
        cur == r.currentIndex
    IN [ r EXCEPT !.items = spliced,
                  !.currentIndex =
                      IF cur = fromIndex THEN to
                      ELSE IF fromIndex < cur /\ to >= cur THEN cur - 1
                      ELSE IF fromIndex > cur /\ to <= cur THEN cur + 1
                      ELSE cur ]

\* startDrag(e, item), item being the row of index
startDrag(r, index) == [ r EXCEPT !.dragIndex = index ]

\* The targetIndex that onDragEnd finds: the index of the row marked
\* drop-above, that of the row marked drop-below plus one, or the dragged
\* row's own index when no row is marked.  onDragMove marks rows other than the
\* dragged one.
DropTargets(r) ==
    { r.dragIndex }
        \cup UNION { { i, i + 1 } : i \in (0..(Len(r.items) - 1)) \ { r.dragIndex } }

\* onDragEnd accepts targetIndex: it calls reorderPlaylist.
Accepted(fromIndex, targetIndex) ==
    targetIndex # fromIndex /\ targetIndex # fromIndex + 1

\* onDragEnd(), with the targetIndex it has found
onDragEnd(r, targetIndex) ==
    IF r.dragIndex < 0 THEN r
    ELSE LET fromIndex == r.dragIndex
             r1 == IF Accepted(fromIndex, targetIndex)
                   THEN reorderPlaylist(r, fromIndex, targetIndex)
                   ELSE r
         IN [ r1 EXCEPT !.dragIndex = -1 ]

\* selectIndex(i), as far as the playlist goes
pl_selectIndex(r, i) ==
    IF i < 0 \/ i >= Len(r.items) THEN r ELSE [ r EXCEPT !.currentIndex = i ]

\* The playlist when buildPlaylist() has run, before init's selectIndex(0).
PlInit == [ items |-> PlItems, currentIndex |-> -1, dragIndex |-> -1 ]

---------------------------------------------------------------------------
\* The v1.0.1 engine (js/playlist-ui.js), on the record v1 of its variables:
\* the selection, isPlaying, endedAndStopped, lastPlayheadMs, the device
\* parameters and the pulsed triggers that wait for their reset.

JUMPTO_MIN_MS == 0
JUMPTO_MAX_MS == 600000

V1Items == ClipOrder
V1Duration(r) == DurationOf(V1Items[r.selectedIdx + 1])

\* pulseParam(param, ms = 20)
v1_pulseParam(r, param) ==
    [ r EXCEPT ![param] = 1, !.pending = @ \cup { param },
               !.log = Append(@, Write(param, 1)) ]

\* The arguments of clampJumpToMs are JavaScript values: a finite number, in
\* units of 1 / Scale ms (clip durations are not whole milliseconds), one of
\* NonFinite, or null.
Ms(n) == [ kind |-> "finite", v |-> n * Scale ]
Units(h) == [ kind |-> "finite", v |-> h ]
NotANumber(kind) == [ kind |-> kind, v |-> 0 ]

\* Number.isFinite(Number(x)): Number(null) is 0, Number(undefined) is NaN.
IsFiniteNumber(x) == x.kind \in { "finite", "null" }
\* Number(x) of an x for which it is finite, in units.
NumberOf(x) == IF x.kind = "finite" THEN x.v ELSE 0

\* Math.floor of a number of units, in units.
Floor(h) == (h \div Scale) * Scale

\* clampJumpToMs(ms, durationMsOrNull): the result in units.
clampJumpToMs_toDuration(ms, durationMsOrNull) ==
    LET v == Max2(JUMPTO_MIN_MS * Scale,
                  Min2(JUMPTO_MAX_MS * Scale, IF IsFiniteNumber(ms) THEN NumberOf(ms) ELSE 0))
        dur == NumberOf(durationMsOrNull)
    IN IF IsFiniteNumber(durationMsOrNull) /\ dur > Scale
       THEN Max2(0, Min2(v, Floor(dur)))
       ELSE v

clampJumpToMs(ms, durationMsOrNull) ==
    LET v == Max2(JUMPTO_MIN_MS * Scale,
                  Min2(JUMPTO_MAX_MS * Scale, IF IsFiniteNumber(ms) THEN NumberOf(ms) ELSE 0))
        dur == NumberOf(durationMsOrNull)
    IN IF IsFiniteNumber(durationMsOrNull) /\ dur > Scale
       THEN Max2(0, Min2(v, Floor(dur - Scale)))
       ELSE v

\* setJumpToMs(targetMs, itemDurationMs), both whole milliseconds: so is the
\* value written.
v1_setJumpToMs(r, targetMs, itemDurationMs) ==
    IF ~r.hasJumpTo THEN r
    ELSE LET v == clampJumpToMs(Ms(targetMs), Ms(itemDurationMs)) \div Scale
         IN [ r EXCEPT !.pJumpTo = v, !.log = Append(@, Write("pJumpTo", v)) ]

\* The record jump of a call setJumpToMs(ms, dur) on a device with jumpto: the
\* arguments and the value written, in units.
JumpCall(ms, dur) == [ ms |-> ms, dur |-> dur, value |-> clampJumpToMs(ms, dur) ]

\* No call yet: the parameter has the value 0 that selectByIndex(0) wrote.
JumpInit == JumpCall(Ms(0), Ms(DurationOf(V1Items[1])))

\* selectByIndex(idx)
selectByIndex(r, idx) ==
    LET i == Max2(0, Min2(Len(V1Items) - 1, idx))
        r1 == [ r EXCEPT !.selectedIdx = i, !.pClipIndex = i,
                         !.log = Append(@, Write("pClipIndex", i)),
                         !.endedAndStopped = TRUE, !.isPlaying = FALSE,
                         !.lastPlayheadMs = 0 ]
    IN v1_setJumpToMs(r1, 0, V1Duration(r1))

\* doPlay(), the context running.
doPlay(r) ==
    LET dur == V1Duration(r)
        isReverse == r.pRate < 0
        loopOn == r.pLoop >= 1
        r1 == IF r.endedAndStopped
              THEN LET a == [ v1_pulseParam(r, "pStopTrig") EXCEPT !.lastPlayheadMs = 0 ]
                   IN IF a.hasJumpTo /\ dur > 0 THEN v1_setJumpToMs(a, 0, dur) ELSE a
              ELSE r
        r2 == IF r1.hasJumpTo /\ dur > 0
              THEN v1_setJumpToMs(r1, IF isReverse /\ ~loopOn THEN dur - 1 ELSE 0, dur)
              ELSE r1
    IN v1_pulseParam([ r2 EXCEPT !.endedAndStopped = FALSE, !.isPlaying = TRUE ],
                     "pPlayTrig")

\* doStop()
doStop_keepsPlaying(r) ==
    LET r1 == [ v1_pulseParam(r, "pStopTrig") EXCEPT !.endedAndStopped = TRUE,
                                                     !.lastPlayheadMs = 0 ]
        dur == V1Duration(r1)
    IN IF r1.hasJumpTo /\ dur > 0 THEN v1_setJumpToMs(r1, 0, dur) ELSE r1

doStop(r) ==
    LET r1 == [ v1_pulseParam(r, "pStopTrig") EXCEPT !.isPlaying = FALSE,
                                                     !.endedAndStopped = TRUE,
                                                     !.lastPlayheadMs = 0 ]
        dur == V1Duration(r1)
    IN IF r1.hasJumpTo /\ dur > 0 THEN v1_setJumpToMs(r1, 0, dur) ELSE r1

\* The change handler of the loop checkbox.
v1_loopToggle(r, checked) ==
    [ r EXCEPT !.pLoop = IF checked THEN 1 ELSE 0,
               !.log = Append(@, Write("pLoop", IF checked THEN 1 ELSE 0)),
               !.endedAndStopped = IF checked THEN FALSE ELSE @ ]

\* The input handler of the rate slider.
v1_setRate(r, v) == [ r EXCEPT !.pRate = v, !.log = Append(@, Write("pRate", v)) ]

\* The playhead subscriber, for a report of ms.
v1_messageEvent(r, ms) ==
    LET r1 == IF ms > r.lastPlayheadMs + 1
              THEN [ r EXCEPT !.isPlaying = TRUE, !.endedAndStopped = FALSE ]
              ELSE r
        loopOn == r1.pLoop >= 1
        dur == V1Duration(r1)
    IN IF ~loopOn /\ ~r1.endedAndStopped /\ ms <= 0 /\ r1.lastPlayheadMs > 0
       THEN LET a == [ v1_pulseParam(r1, "pStopTrig") EXCEPT !.isPlaying = FALSE,
                                                             !.endedAndStopped = TRUE ]
                b == IF a.hasJumpTo /\ dur > 0 THEN v1_setJumpToMs(a, 0, dur) ELSE a
            IN [ b EXCEPT !.lastPlayheadMs = 0 ]
       ELSE [ r1 EXCEPT !.lastPlayheadMs = ms ]

\* The reset of a pulsed trigger.
v1_timerFired(r, param) == [ r EXCEPT ![param] = 0, !.pending = @ \ { param } ]

\* The engine when initPlaylistUI has completed, on a device with jumpto.
V1Init ==
    [ selectedIdx |-> 0, isPlaying |-> FALSE, endedAndStopped |-> TRUE,
      lastPlayheadMs |-> 0, hasJumpTo |-> TRUE,
      pClipIndex |-> 0, pRate |-> 1, pLoop |-> 0, pPlayTrig |-> 0, pStopTrig |-> 0,
      pJumpTo |-> 0, pending |-> { }, log |-> << >>, events |-> 0 ]

---------------------------------------------------------------------------
\* The LED-ladder engine (the second script of js/playlist-ui.js, lines 804 to
\* 1997), on the record led of its variables: how far initPlaylistUI has come
\* (stage, the playlist, the loop index i, loadErrors), items (the names of the
\* clips loaded), currentIndex, isInitialized, isPlaying, isLoop, rate, the
\* isDragging flag of the waveform, the device parameters, the uploads
\* (device.setDataBuffer) that have not completed with the code that awaits
\* each, and the pending setTimeout callbacks.

maxErrors == 3

LedFired(r, p) == \E k \in 1..Len(r.log) : r.log[k] = Write(p, 1)

led_write(r, p, value) == [ r EXCEPT ![p] = value, !.log = Append(@, Write(p, value)) ]

led_setTimeout(r, kind, tempLoop) ==
    [ r EXCEPT !.timers = @ \cup { [ kind |-> kind, id |-> r.nextId, tempLoop |-> tempLoop ] },
               !.nextId = @ + 1 ]

\* pulse(p)
led_pulse(r, p) == led_setTimeout(led_write(r, p, 1), p, FALSE)

LedDuration(r) == DurationOf(r.items[r.currentIndex + 1])

\* seekToPosition(clientX, element); the ratio is num / SeekDen.
led_seekToPosition(r, num) ==
    IF r.currentIndex < 0 THEN r
    ELSE led_write(r, "jumpto", (clamp01num(num, SeekDen) * LedDuration(r)) \div SeekDen)

\* The mousedown and touchstart handlers of the waveform.
led_waveformDown(r, num) ==
    IF r.currentIndex < 0 THEN r
    ELSE led_seekToPosition([ r EXCEPT !.isDragging = TRUE ], num)

\* The mousemove and touchmove handlers.
led_waveformMove(r, num) == IF ~r.isDragging THEN r ELSE led_seekToPosition(r, num)

\* The mouseup and touchend handlers.
led_waveformUp(r) == [ r EXCEPT !.isDragging = FALSE ]

\* The click handler of the progress bar.
led_progressClick(r, num) == led_seekToPosition(r, num)

\* selectIndex(i), up to its await; then is the code that awaits it: "init"
\* (initPlaylistUI), "play" (the click handler of a row) or "none".
led_selectIndex(r, i, then) ==
    IF i < 0 \/ i >= Len(r.items) THEN r
    ELSE [ r EXCEPT !.currentIndex = i,
                    !.uploads = Append(@, [ idx |-> i, then |-> then ]) ]

\* play()
led_play(r) ==
    IF r.currentIndex < 0 \/ ~r.isInitialized THEN r
    ELSE LET needsTempLoop == r.rate < 0 /\ ~r.isLoop
             r1 == IF needsTempLoop THEN led_write(r, "pLoop", 1) ELSE r
             r2 == led_write(r1, "jumpto",
                             IF r.rate < 0 THEN Max2(0, LedDuration(r) - START_MARGIN_MS) ELSE 0)
         IN led_setTimeout(r2, "playStart", needsTempLoop)

\* The callback that play() has scheduled.
led_playStart(r, tempLoop) ==
    LET r1 == [ led_pulse(r, "playTrig") EXCEPT !.isPlaying = TRUE ]
    IN IF tempLoop THEN led_setTimeout(r1, "loopRevert", FALSE) ELSE r1

\* stop()
led_stop(r) == [ led_pulse(r, "stopTrig") EXCEPT !.isPlaying = FALSE ]

\* togglePlayPause()
led_togglePlayPause(r) == IF r.isPlaying THEN led_stop(r) ELSE led_play(r)

\* toggleLoop()
led_toggleLoop(r) ==
    led_write([ r EXCEPT !.isLoop = ~r.isLoop ], "pLoop", IF ~r.isLoop THEN 1 ELSE 0)

\* nextTrack() and prevTrack()
led_nextTrack(r) ==
    IF Len(r.items) = 0 THEN r
    ELSE LET r1 == led_selectIndex(r, (r.currentIndex + 1) % Len(r.items), "none")
         IN IF r1.isPlaying THEN led_play(r1) ELSE r1

led_prevTrack(r) ==
    IF Len(r.items) = 0 THEN r
    ELSE LET r1 == led_selectIndex(r, (r.currentIndex - 1 + Len(r.items)) % Len(r.items),
                                   "none")
         IN IF r1.isPlaying THEN led_play(r1) ELSE r1

\* A digit key
led_digitKey(r, num) ==
    IF num < Len(r.items) THEN led_play(led_selectIndex(r, num, "none")) ELSE r

\* updateRate(val)
led_updateRate(r, val) ==
    LET prevRate == r.rate
        r1 == led_write([ r EXCEPT !.rate = val ], "pRate", val)
    IN IF r.isPlaying /\ r.currentIndex >= 0
       THEN IF prevRate >= 0 /\ val < 0
            THEN led_write(r1, "jumpto", Max2(0, LedDuration(r) - FLIP_MARGIN_MS))
            ELSE IF prevRate < 0 /\ val >= 0
            THEN led_write(r1, "jumpto", FLIP_MARGIN_MS)
            ELSE r1
       ELSE r1

\* The click handler of a playlist row: await selectIndex(idx), then play().
led_clickItem(r, idx) == led_selectIndex(r, idx, "play")

\* initPlaylistUI when fetchJSON has settled: it threw, or the playlist lists
\* the files names.
led_fetched(r, ok, names) ==
    IF ~ok \/ Len(names) = 0 THEN [ r EXCEPT !.stage = "failed" ]
    ELSE [ r EXCEPT !.stage = "loading", !.playlist = names ]

\* initPlaylistUI when fetchAndDecode of playlist.items[i] has settled: the
\* rest of the iteration and, after the last one, the code up to the await of
\* selectIndex(0).
led_decoded(r, ok) ==
    LET r1 == IF ok THEN [ r EXCEPT !.items = Append(@, r.playlist[r.i + 1]) ]
              ELSE [ r EXCEPT !.loadErrors = @ + 1 ]
        r2 == [ r1 EXCEPT !.i = @ + 1 ]
    IN IF r1.loadErrors >= maxErrors THEN [ r1 EXCEPT !.stage = "failed" ]
       ELSE IF r2.i < Len(r.playlist) THEN r2
       ELSE IF Len(r2.items) = 0 THEN [ r2 EXCEPT !.stage = "failed" ]
       ELSE led_selectIndex([ r2 EXCEPT !.stage = "selecting", !.rows = TRUE ], 0, "init")

\* The end of initPlaylistUI, after its await of selectIndex(0).
led_initDone(r) ==
    [ led_pulse(led_write(r, "playTrig", 0), "stopTrig")
        EXCEPT !.isInitialized = TRUE, !.stage = "ready" ]

\* The oldest upload completes, and the code that awaited it goes on.
led_uploadDone(r) ==
    LET u == Head(r.uploads)
        r1 == [ r EXCEPT !.uploads = Tail(@) ]
    IN IF u.then = "init" THEN led_initDone(r1)
       ELSE IF u.then = "play" THEN led_play(r1)
       ELSE r1

\* A setTimeout callback runs.
led_timerFired(r, t) ==
    LET r0 == [ r EXCEPT !.timers = @ \ { t } ]
        r1 == IF t.kind = "playStart" THEN led_playStart(r0, t.tempLoop)
              ELSE IF t.kind = "loopRevert" THEN [ r0 EXCEPT !.pLoop = 0 ]
              ELSE [ r0 EXCEPT ![t.kind] = 0 ]
    IN IF r1.timers = { } THEN [ r1 EXCEPT !.nextId = 0 ] ELSE r1

\* The engine when initPlaylistUI has bound its handlers and awaits the
\* playlist.
LedInit ==
    [ stage |-> "fetching", playlist |-> << >>, i |-> 0, items |-> << >>,
      loadErrors |-> 0, rows |-> FALSE,
      currentIndex |-> -1, isInitialized |-> FALSE, isPlaying |-> FALSE,
      isLoop |-> FALSE, rate |-> 1, isDragging |-> FALSE,
      playTrig |-> 0, stopTrig |-> 0, jumpto |-> 0, pLoop |-> 0, pRate |-> 1,
      uploads |-> << >>, timers |-> { }, nextId |-> 0, log |-> << >>, events |-> 0 ]

---------------------------------------------------------------------------
\* The state machine.

\* The ids that initPlaylistUI looks up: ensureParam throws for a missing one
\* of RequiredParams; jumpto is looked up without ensureParam.
RequiredParams == { "clipIndex", "rate", "loop", "playTrig", "stopTrig", "outGain" }
ParamIds == RequiredParams \cup { "jumpto" }

\* ensureParam(device, id): whether the lookup succeeds (it throws otherwise).
ensureParam(ids, id) == id \in ids

\* The outcome of the parameter lookups that initPlaylistUI starts with.
initPlaylistUI_loopOptional(ids) ==
    IF \A id \in RequiredParams \ { "loop" } : ensureParam(ids, id)
    THEN "ready" ELSE "failed"

initPlaylistUI(ids) ==
    IF \A id \in RequiredParams : ensureParam(ids, id) THEN "ready" ELSE "failed"

\* The state when initPlaylistUI has run renderList() and setSelected(0) on a
\* device that exposes the parameters ids, or has thrown: then no handler is
\* registered and the variables keep the values below for good.
InitLoaded(filenames, savedNames, running, ids, faults) ==
    /\ ss = SsInit
    /\ led = LedInit
    /\ pl = PlInit
    /\ jump = JumpInit
    /\ v1 = V1Init
    /\ manifest = filenames
    /\ saved = savedNames
    /\ items = orderedNames(filenames, savedNames)
    /\ params = ids
    /\ phase = initPlaylistUI(ids)
    /\ hasJumpTo = (phase = "ready" /\ "jumpto" \in ids)
    /\ faulty = faults
    /\ threw = FALSE
    /\ pOutGain = 1
    /\ rateVal = 1
    /\ volVal = 1
    /\ selectedIdx = 0
    /\ isLoop = FALSE
    /\ isPlayingUI = FALSE
    /\ portPlayheadMs = 0
    /\ lastPortAt = 0
    /\ portOffsetMs = 0
    /\ anchorCtxTime = 0
    /\ anchorRawMs = 0
    /\ displayMs = 0
    /\ didAutoResetAfterEOF = (phase = "ready")
    /\ reverseEOFIgnoreUntil = 0
    /\ pClipIndex = 0
    /\ pRate = 1
    /\ pLoop = 0
    /\ pPlayTrig = 0
    /\ pStopTrig = 0
    /\ pJumpTo = << 0, 1 >>
    /\ now = StartNow
    /\ ctxTime = 0
    /\ ctxRunning = running
    /\ pendingPlay = 0
    /\ timers = { }
    /\ log = << >>
    /\ recent = IF phase = "ready" THEN << "select" >> ELSE << >>
    /\ tickStops = 0
    /\ events = 0

\* The same, with nothing persisted: the clips are in the manifest's order.
InitDeviceWith(order, running, ids, faults) ==
    InitLoaded(order, << >>, running, ids, faults)

\* The state when initPlaylistUI has run renderList() and setSelected(0), with
\* or without the optional jumpto parameter, every write succeeding.
InitWith(order, running) ==
    \E ids \in { ParamIds, RequiredParams } :
        InitDeviceWith(order, running, ids, { })

\* No setTimeout callback is due.  A callback that is due runs before the
\* handlers of later events.
Quiet == \A t \in timers : t.due > now

\* The handlers are registered.
Ready == phase = "ready"

\* The operations that the ghost recent follows.
Transport == { "select", "stop", "play" }

Last3(seq) == IF Len(seq) > 3 THEN SubSeq(seq, Len(seq) - 2, Len(seq)) ELSE seq

Init == InitWith(ClipOrder, TRUE)

UserOp(name, s) ==
    /\ Ready
    /\ Quiet
    /\ events < MaxEvents
    /\ Becomes(s)
    /\ recent' = IF name \in Transport THEN Last3(Append(recent, name)) ELSE << >>
    /\ tickStops' = 0
    /\ events' = events + 1

Select ==
    \E idx \in (-1)..Len(items) : UserOp("select", setSelected(State, idx))

Play ==
    /\ ctxRunning \/ pendingPlay < MaxPending
    /\ UserOp("play", playFromBeginning(State))

ContextResumed ==
    /\ ~ctxRunning
    /\ pendingPlay > 0
    /\ UserOp("resumed", contextResumed(State))

Stop == UserOp("stop", stopNow(State))

ToggleLoop == UserOp("loop", toggleLoop(State))

SetRate ==
    \E v \in Rates : v # pRate /\ UserOp("rate", setRate(State, v))

Seek ==
    \E num \in SeekFracs : UserOp("seek", seekToFrac(State, num, isPlayingUI))

SetVol ==
    \E v \in Vols : v # volVal /\ UserOp("vol", setVol(State, v))

Drop ==
    \E from \in 0..(Len(items) - 1), to \in 0..(Len(items) - 1) :
        from # to /\ UserOp("drop", dropRow(State, from, to))

Telemetry ==
    \E v \in TelemetryVals :
        /\ Ready
        /\ Quiet
        /\ events < MaxEvents
        /\ Becomes(messageEvent(State, "playhead", "finite", v))
        /\ events' = events + 1
        /\ recent' = << >>
        /\ UNCHANGED tickStops

\* A report whose payload is not a finite number is dropped.
TelemetryNonFinite ==
    \E kind \in NonFinite :
        /\ Ready
        /\ Quiet
        /\ events < MaxEvents
        /\ Becomes(messageEvent(State, "playhead", kind, 0))
        /\ events' = events + 1
        /\ recent' = << "dropped" >>
        /\ UNCHANGED tickStops

Tick ==
    LET s == tick(State)
    IN /\ Ready
       /\ Quiet
       /\ Becomes(s)
       /\ tickStops' = IF Wrote(s, "pStopTrig") THEN Min2(tickStops + 1, 2) ELSE tickStops
       /\ UNCHANGED << recent, events >>

TimerFire ==
    \E t \in timers :
        /\ Ready
        /\ t.due <= now
        /\ \A u \in timers : t.due <= u.due
        /\ Becomes(timerFired(State, t))
        /\ UNCHANGED << recent, tickStops, events >>

\* Time passes.
Advance ==
    /\ Ready
    /\ now + StepMs <= StartNow + MaxSteps * StepMs
    /\ Quiet
    /\ Becomes([ State EXCEPT !.now = now + StepMs,
                              !.ctxTime = IF ctxRunning THEN ctxTime + StepMs ELSE ctxTime ])
    /\ recent' = << >>
    /\ UNCHANGED << tickStops, events >>

Next ==
    \/ Select
    \/ Play
    \/ Stop
    \/ ToggleLoop
    \/ SetRate
    \/ Seek
    \/ Telemetry
    \/ TelemetryNonFinite
    \/ Tick
    \/ TimerFire
    \/ Advance

Spec == Init /\ [][Next]_vars

\* The playlist model: three clips, rows can be dragged; the rate, the loop
\* flag and the progress bar are left alone.
InitList == InitWith(ClipOrderList, TRUE)

NextList ==
    \/ Drop
    \/ Select
    \/ Play
    \/ Stop
    \/ Telemetry
    \/ Tick
    \/ TimerFire
    \/ Advance

SpecList == InitList /\ [][NextList]_vars

\* The model of a context that starts suspended: Play waits for context.resume().
InitAsync == InitWith(ClipOrder, FALSE)

NextAsync ==
    \/ ContextResumed
    \/ Next

SpecAsync == InitAsync /\ [][NextAsync]_vars

\* The model of the device: any set of parameters may be missing.
InitDevice ==
    \E ids \in SUBSET ParamIds : InitDeviceWith(ClipOrder, TRUE, ids, { })

SpecDevice == InitDevice /\ [][Next]_vars

\* The model of failing writes: the parameters of one of FaultSets throw when
\* their value is assigned.  No telemetry arrives.
FaultSets ==
    { { "pRate" }, { "pOutGain" }, { "pPlayTrig", "pStopTrig" },
      { "pLoop", "pClipIndex", "pJumpTo" } }

InitFault ==
    \E ids \in { ParamIds, RequiredParams }, faults \in FaultSets :
        InitDeviceWith(ClipOrder, TRUE, ids, faults)

NextFault ==
    \/ Select
    \/ Play
    \/ Stop
    \/ ToggleLoop
    \/ SetRate
    \/ SetVol
    \/ Seek
    \/ Tick
    \/ TimerFire
    \/ Advance

SpecFault == InitFault /\ [][NextFault]_vars

\* The page is loaded again: a new device and a new context, and
\* initPlaylistUI orders the manifest by the array that the last drop saved.
reload(s) ==
    [ s EXCEPT !.items = orderedNames(s.manifest, s.saved),
               !.selectedIdx = 0, !.isLoop = FALSE, !.isPlayingUI = FALSE,
               !.portPlayheadMs = 0, !.lastPortAt = 0, !.portOffsetMs = 0,
               !.anchorCtxTime = 0, !.anchorRawMs = 0, !.displayMs = 0,
               !.didAutoResetAfterEOF = TRUE, !.reverseEOFIgnoreUntil = 0,
               !.pClipIndex = 0, !.pRate = 1, !.pLoop = 0, !.pPlayTrig = 0,
               !.pStopTrig = 0, !.pJumpTo = << 0, 1 >>, !.pOutGain = 1,
               !.rateVal = 1, !.volVal = 1, !.now = StartNow, !.ctxTime = 0,
               !.pendingPlay = 0, !.timers = { } ]

Reload == UserOp("reload", reload(State))

\* The model of the persisted order: any manifest of at most MaxNames distinct
\* names, any array of at most MaxNames names in localStorage, one of them a
\* name that no manifest lists; rows are dragged and the page is reloaded.
Names == { "A", "B", "C" }
StoredNames == Names \cup { "Z" }

SeqsUpTo(S, n) == UNION { [ 1..k -> S ] : k \in 0..n }
Distinct(seq) == \A i, j \in 1..Len(seq) : seq[i] = seq[j] => i = j

Manifests == { m \in SeqsUpTo(Names, MaxNames) : Distinct(m) }
SavedArrays == SeqsUpTo(StoredNames, MaxNames)

InitOrder ==
    \E m \in Manifests, sv \in SavedArrays :
        InitLoaded(m, sv, TRUE, ParamIds, { })

NextOrder ==
    \/ Drop
    \/ Reload

SpecOrder == InitOrder /\ [][NextOrder]_vars

\* The model of the Speak & Spell engine.  A callback that is due runs before
\* the handlers of later events, the callbacks in the order of their due times
\* and, with equal due times, of their creation.
SsQuiet == \A t \in ss.timers : t.due > ss.now

SsRates == { -1, 1 }

SsOp(r) ==
    /\ SsQuiet
    /\ ss.events < MaxEvents
    /\ ss' = [ r EXCEPT !.events = @ + 1 ]
    /\ UNCHANGED << engineVars, v1, jump, pl, led >>

SsCleared == [ ss EXCEPT !.log = << >> ]

SsPlay == SsOp(ss_play(SsCleared))

SsStop == SsOp(ss_stop(SsCleared))

SsToggleLoop == SsOp(ss_toggleLoop(SsCleared))

SsNextTrack == SsOp(ss_nextTrack(SsCleared))

SsPrevTrack == SsOp(ss_prevTrack(SsCleared))

SsDigitKey == \E num \in 0..(Len(SsItems) - 1) : SsOp(ss_digitKey(SsCleared, num))

SsClickItem == \E idx \in 0..(Len(SsItems) - 1) : SsOp(ss_clickItem(SsCleared, idx))

SsSetRate == \E v \in SsRates : v # ss.rate /\ SsOp(updateRate(SsCleared, v))

SsUploadDone ==
    /\ SsQuiet
    /\ ss.uploads # << >>
    /\ ss' = ss_uploadDone(SsCleared)
    /\ UNCHANGED << engineVars, v1, jump, pl, led >>

SsNextTimer(t) ==
    /\ t \in ss.timers
    /\ t.due <= ss.now
    /\ \A u \in ss.timers : t.due < u.due \/ (t.due = u.due /\ t.id <= u.id)

SsTimerFire ==
    \E t \in ss.timers :
        /\ SsNextTimer(t)
        /\ ss' = ss_timerFired(SsCleared, t)
        /\ UNCHANGED << engineVars, v1, jump, pl, led >>

SsAdvance ==
    /\ SsQuiet
    /\ ss.now + StepMs <= MaxSteps * StepMs
    /\ ss' = [ ss EXCEPT !.now = @ + StepMs, !.log = << >> ]
    /\ UNCHANGED << engineVars, v1, jump, pl, led >>

NextSpeakSpell ==
    \/ SsPlay
    \/ SsStop
    \/ SsToggleLoop
    \/ SsNextTrack
    \/ SsPrevTrack
    \/ SsDigitKey
    \/ SsClickItem
    \/ SsSetRate
    \/ SsUploadDone
    \/ SsTimerFire
    \/ SsAdvance

InitSpeakSpell == InitDeviceWith(ClipOrder, TRUE, ParamIds, { })

SpecSpeakSpell == InitSpeakSpell /\ [][NextSpeakSpell]_vars

\* The model of the v1.0.1 engine.
V1Reports == TelemetryVals \cup { 1 }

V1Cleared == [ v1 EXCEPT !.log = << >> ]

V1Op(r) ==
    /\ v1.events < MaxEvents
    /\ v1' = [ r EXCEPT !.events = @ + 1 ]
    /\ UNCHANGED << engineVars, ss, jump, pl, led >>

V1Select == \E idx \in 0..(Len(V1Items) - 1) : V1Op(selectByIndex(V1Cleared, idx))

V1Play == V1Op(doPlay(V1Cleared))

V1Stop == V1Op(doStop(V1Cleared))

V1LoopToggle == V1Op(v1_loopToggle(V1Cleared, v1.pLoop = 0))

V1SetRate == \E v \in SsRates : v # v1.pRate /\ V1Op(v1_setRate(V1Cleared, v))

V1Telemetry == \E ms \in V1Reports : V1Op(v1_messageEvent(V1Cleared, ms))

V1TimerFire ==
    \E param \in v1.pending :
        /\ v1' = v1_timerFired(V1Cleared, param)
        /\ UNCHANGED << engineVars, ss, jump, pl, led >>

NextV1 ==
    \/ V1Select
    \/ V1Play
    \/ V1Stop
    \/ V1LoopToggle
    \/ V1SetRate
    \/ V1Telemetry
    \/ V1TimerFire

InitV1 == InitDeviceWith(ClipOrder, TRUE, ParamIds, { })

SpecV1 == InitV1 /\ [][NextV1]_vars

\* The model of the seek clamp: setJumpToMs is called with any requested value
\* and any duration.
JumpRequests ==
    { Units(h) : h \in { -Scale, 0, 1, Scale, 2 * Scale + 1, 500 * Scale, 2999 * Scale,
                         3000 * Scale, JUMPTO_MAX_MS * Scale, JUMPTO_MAX_MS * Scale + 1,
                         700000 * Scale } }
        \cup { NotANumber(k) : k \in NonFinite \cup { "null" } }

JumpDurations ==
    { Units(h) : h \in { -Scale, 0, 1, Scale, Scale + 1, 2 * Scale, 2 * Scale + 1,
                         3000 * Scale, 3000 * Scale + 1, 700000 * Scale } }
        \cup { NotANumber(k) : k \in { "NaN", "Infinity", "null" } }

SetJumpTo ==
    \E ms \in JumpRequests, dur \in JumpDurations :
        /\ jump' = JumpCall(ms, dur)
        /\ UNCHANGED << engineVars, ss, v1, pl, led >>

NextJump == SetJumpTo

InitJump == InitDeviceWith(ClipOrder, TRUE, ParamIds, { })

SpecJump == InitJump /\ [][NextJump]_vars

\* The model of the Speak & Spell playlist: rows are clicked and dragged.
PlSelect ==
    \E i \in 0..(Len(pl.items) - 1) :
        /\ pl.dragIndex < 0
        /\ pl' = pl_selectIndex(pl, i)
        /\ UNCHANGED << engineVars, ss, v1, jump, led >>

PlStartDrag ==
    \E index \in 0..(Len(pl.items) - 1) :
        /\ pl.dragIndex < 0
        /\ pl' = startDrag(pl, index)
        /\ UNCHANGED << engineVars, ss, v1, jump, led >>

PlDragEnd ==
    \E targetIndex \in DropTargets(pl) :
        /\ pl.dragIndex >= 0
        /\ pl' = onDragEnd(pl, targetIndex)
        /\ UNCHANGED << engineVars, ss, v1, jump, led >>

NextPlaylist ==
    \/ PlSelect
    \/ PlStartDrag
    \/ PlDragEnd

InitPlaylist == InitDeviceWith(ClipOrder, TRUE, ParamIds, { })

SpecPlaylist == InitPlaylist /\ [][NextPlaylist]_vars

\* The model of the LED-ladder engine: the playlist lists no, two or four
\* files, every fetch may fail, and the user's input arrives at any time from
\* the moment initPlaylistUI has bound its handlers, but not within the 20 ms
\* of a pulse.
LedPlaylists == { SubSeq(PlItems, 1, n) : n \in { 0, 2, Len(PlItems) } }

LedQuiet == \A t \in led.timers : t.kind \in { "playStart", "loopRevert" }

LedOthers == << engineVars, ss, v1, jump, pl >>

LedCleared == [ led EXCEPT !.log = << >> ]

LedOp(r) ==
    /\ LedQuiet
    /\ led.events < LedMaxEvents
    /\ led' = [ r EXCEPT !.events = @ + 1 ]
    /\ UNCHANGED LedOthers

LedStep(r) ==
    /\ led' = r
    /\ UNCHANGED LedOthers

LedFetched ==
    \E ok \in BOOLEAN, names \in LedPlaylists :
        /\ led.stage = "fetching"
        /\ LedStep(led_fetched(LedCleared, ok, names))

LedDecoded ==
    \E ok \in BOOLEAN :
        /\ led.stage = "loading"
        /\ LedStep(led_decoded(LedCleared, ok))

LedUploadDone ==
    /\ led.uploads # << >>
    /\ LedStep(led_uploadDone(LedCleared))

LedTimerFire == \E t \in led.timers : LedStep(led_timerFired(LedCleared, t))

LedPlay == LedOp(led_play(LedCleared))

LedStop == LedOp(led_stop(LedCleared))

LedSpace == LedOp(led_togglePlayPause(LedCleared))

LedToggleLoop == LedOp(led_toggleLoop(LedCleared))

LedNextTrack == LedOp(led_nextTrack(LedCleared))

LedPrevTrack == LedOp(led_prevTrack(LedCleared))

LedDigitKey == \E num \in 0..(Len(PlItems) - 1) : LedOp(led_digitKey(LedCleared, num))

LedSetRate == \E v \in SsRates : v # led.rate /\ LedOp(led_updateRate(LedCleared, v))

LedWaveformDown == \E num \in SeekFracs : LedOp(led_waveformDown(LedCleared, num))

LedWaveformMove == \E num \in SeekFracs : LedOp(led_waveformMove(LedCleared, num))

LedWaveformUp == led.isDragging /\ LedOp(led_waveformUp(LedCleared))

LedProgressClick == \E num \in SeekFracs : LedOp(led_progressClick(LedCleared, num))

\* The rows exist from buildPlaylist() on.
LedClickItem ==
    \E idx \in 0..(Len(led.items) - 1) :
        led.rows /\ LedOp(led_clickItem(LedCleared, idx))

NextLed ==
    \/ LedFetched
    \/ LedDecoded
    \/ LedUploadDone
    \/ LedTimerFire
    \/ LedSpace
    \/ LedPlay
    \/ LedStop
    \/ LedToggleLoop
    \/ LedNextTrack
    \/ LedPrevTrack
    \/ LedDigitKey
    \/ LedSetRate
    \/ LedWaveformDown
    \/ LedWaveformMove
    \/ LedWaveformUp
    \/ LedProgressClick
    \/ LedClickItem

InitLed == InitDeviceWith(ClipOrder, TRUE, ParamIds, { })

SpecLed == InitLed /\ [][NextLed]_vars

\* The model of an empty manifest: items is the empty array.  initPlaylistUI
\* runs renderList(), setSelected(0) and requestAnimationFrame(tick) all the
\* same.
InitEmpty == InitWith(<< >>, TRUE)

SpecEmpty == InitEmpty /\ [][Next]_vars

WroteNow(param) == \E k \in 1..Len(log) : log[k].param = param
LastOp == IF Len(recent) = 0 THEN "none" ELSE recent[Len(recent)]
Idx == (-1)..Len(items)

---------------------------------------------------------------------------
\* C1.  End-of-media auto-reset (forward): while Playing with loop disabled and
\* rate >= 0, a tick whose effective position is >= durationMs - END_EPS_MS
\* leaves Playing, shows position 0 and pulses the stop trigger; and ticks fire
\* at most one stop pulse between two user operations.
C1_ForwardEndOfMedia ==
    /\ (isPlayingUI /\ ~isLoop /\ pRate >= 0
            /\ (\/ tickRaw(State) >= SelDuration(State) - END_EPS_MS
                \/ getEffectiveRaw(State) >= SelDuration(State) - END_EPS_MS))
         => LET s == tick(State)
            IN ~s.isPlayingUI /\ s.displayMs = 0 /\ Wrote(s, "pStopTrig")
    /\ tickStops <= 1

C1_Witness ==
    /\ tickStops = 1 /\ WroteNow("pStopTrig")
    /\ ~isPlayingUI /\ displayMs = 0 /\ pRate >= 0 /\ ~isLoop
    /\ portPlayheadMs - portOffsetMs >= DurationOf(items[selectedIdx + 1]) - END_EPS_MS

\* C2.  Reorder preserves selection identity: after every drop with from # to
\* the selected clip is the clip that was selected before, and the track-index
\* parameter was written with its new index.
C2_ReorderKeepsSelection ==
    \A from \in 0..(Len(items) - 1), to \in 0..(Len(items) - 1) :
        from # to =>
            LET s == dropRow(State, from, to)
            IN /\ s.items[s.selectedIdx + 1] = items[selectedIdx + 1]
               /\ s.pClipIndex = s.selectedIdx
               /\ Wrote(s, "pClipIndex")

\* C3.  Toggling loop never starts, stops or seeks: the loop handler leaves
\* isPlaying as it is, pulses neither trigger and does not write the seek
\* parameter.
C3_LoopToggleNeverStops ==
    LET s == toggleLoop(State)
    IN /\ s.isPlayingUI = isPlayingUI
       /\ ~Wrote(s, "pPlayTrig")
       /\ ~Wrote(s, "pStopTrig")
       /\ ~Wrote(s, "pJumpTo")

\* C4.  Loop-off rebase continuity: with loop on while Playing and position p
\* displayed, toggling loop off sets the offset to raw - p, still displays p, and
\* so does the next tick with the same fresh telemetry.
C4_LoopOffContinuity ==
    (isLoop /\ isPlayingUI) =>
        LET p == displayMs
            s == toggleLoop(State)
        IN /\ s.portOffsetMs = portPlayheadMs - p
           /\ s.displayMs = p
           /\ (s.now - s.lastPortAt < PORT_FRESH_MS) => tick(s).displayMs = p

\* The state a given time after s, with nothing else happening.
After(s, ms) == [ s EXCEPT !.now = @ + ms, !.ctxTime = @ + ms, !.log = << >> ]

\* C5.  End-of-media auto-reset (reverse): rate -1, loop disabled; after
\* playFromBeginning and the grace window, a report of a position <= END_EPS_MS
\* makes the next tick leave Playing, show 0 and pulse the stop trigger, with
\* and without the jumpto parameter.
C5_ReverseEndOfMedia ==
    (pRate = -1 /\ ~isLoop) =>
        \A v \in { 0, 2, END_EPS_MS } :
            LET played == After(playContinue(State), REVERSE_EOF_GRACE_MS)
                s == tick(onPlayhead(played, v))
            IN ~s.isPlayingUI /\ s.displayMs = 0 /\ Wrote(s, "pStopTrig")

\* What C5 states, for a device without the jumpto parameter.
C5_WithoutJumpTo == ~hasJumpTo => C5_ReverseEndOfMedia

\* C6.  Idempotent re-arm: playFromBeginning twice in a row ends in the state
\* that stop followed by playFromBeginning ends in (display at the start,
\* Playing, the same Timebase), each having pulsed stop and play.
C6_IdempotentRearm ==
    LET pp == playContinue(playContinue(State))
        sp == playContinue(stopNow(State))
    IN /\ pp.displayMs = 0 /\ sp.displayMs = 0
       /\ pp.isPlayingUI /\ sp.isPlayingUI
       /\ pp.portPlayheadMs = sp.portPlayheadMs
       /\ pp.portOffsetMs = sp.portOffsetMs
       /\ pp.lastPortAt = sp.lastPortAt
       /\ pp.anchorRawMs = sp.anchorRawMs
       /\ pp.anchorCtxTime = sp.anchorCtxTime
       /\ [ pp EXCEPT !.log = << >> ] = [ sp EXCEPT !.log = << >> ]
       /\ Wrote(pp, "pStopTrig") /\ Wrote(pp, "pPlayTrig")
       /\ Wrote(sp, "pStopTrig") /\ Wrote(sp, "pPlayTrig")

C6_Witness ==
    /\ Len(recent) >= 2
    /\ recent[Len(recent)] = "play" /\ recent[Len(recent) - 1] = "play"
    /\ events > 2
    /\ isPlayingUI /\ displayMs = 0 /\ pStopTrig = 1 /\ pPlayTrig = 1

\* C7.  Round trip: select, stop, playFromBeginning at a forward rate shows
\* position 0 before any telemetry arrives, from every reachable state.
C7_RoundTrip ==
    /\ pRate >= 0 =>
            \A sel \in { setSelected(State, idx) : idx \in Idx } :
                LET s == playContinue(stopNow(sel))
                IN s.displayMs = 0 /\ tick(s).displayMs = 0
    /\ (recent = << "select", "stop", "play" >> /\ pRate >= 0) => displayMs = 0

C7_Witness ==
    /\ recent = << "select", "stop", "play" >>
    /\ events > 3
    /\ pRate >= 0 /\ displayMs = 0 /\ isPlayingUI

\* C8.  Selecting a track while Playing pulses the stop trigger before the
\* track-index parameter is written.
C8_SelectStopsFirst ==
    isPlayingUI =>
        \A idx \in Idx :
            LET s == setSelected(State, idx)
            IN \E k \in 1..Len(s.log) :
                  /\ s.log[k].param = "pStopTrig"
                  /\ \A j \in 1..Len(s.log) : s.log[j].param = "pClipIndex" => k < j

\* C9.  After a track selection and after Stop, isPlaying is false, the Timebase
\* is reset (raw 0, offset 0, anchor position 0) and position 0 is displayed.
IsReset(s) ==
    /\ ~s.isPlayingUI
    /\ s.portPlayheadMs = 0 /\ s.portOffsetMs = 0 /\ s.anchorRawMs = 0
    /\ s.displayMs = 0

C9_SelectAndStopReset ==
    /\ \A idx \in Idx : IsReset(setSelected(State, idx))
    /\ IsReset(stopNow(State))
    /\ LastOp \in { "select", "stop" } => IsReset(State)

C9_Witness ==
    /\ LastOp = "stop" /\ events > 2
    /\ WroteNow("pStopTrig") /\ WroteNow("pJumpTo")
    /\ IsReset(State)

\* C10.  Reverse grace window: playFromBeginning at a negative rate opens a
\* window of REVERSE_EOF_GRACE_MS; within it no tick takes a position at or
\* near 0 for the end of the media, whatever report arrives: Playing stays and
\* the tick pulses no stop.
GraceReports == TelemetryVals \cup { -1, -2999, -4999 }

InGrace(s) == s.isPlayingUI /\ s.now < s.reverseEOFIgnoreUntil

NoEndOfMedia(s) == LET r == tick(s) IN r.isPlayingUI /\ ~Wrote(r, "pStopTrig")

C10_ReverseGrace ==
    /\ pRate < 0 =>
            playContinue(State).reverseEOFIgnoreUntil = now + REVERSE_EOF_GRACE_MS
    /\ InGrace(State) =>
            \A s \in { State } \cup { onPlayhead(State, v) : v \in GraceReports } :
                (InGrace(s) /\ (s.pRate < 0 \/ tickRaw(s) <= END_EPS_MS))
                    => NoEndOfMedia(s)

C10_Witness ==
    /\ isPlayingUI /\ pRate < 0 /\ ~isLoop /\ ~hasJumpTo
    /\ now < reverseEOFIgnoreUntil
    /\ now > reverseEOFIgnoreUntil - REVERSE_EOF_GRACE_MS
    /\ lastPortAt = now /\ portPlayheadMs = 2 /\ displayMs = 2

\* The number of writes of a parameter that handler result s has logged.
Writes(s, param) == Cardinality({ k \in 1..Len(s.log) : s.log[k].param = param })

\* C11.  Loop wrap: with loop enabled and a clip of duration d > 0, the position
\* displayed for an effective position x is ((x mod d) + d) mod d (JavaScript's
\* mod), it lies in [0, d), and painting it signals no end of the media: no stop
\* pulse, isPlaying as before.  With d = 3000, 3500 displays 500 and -200
\* displays 2800.
LoopPositions == { -7000, -3000, -200, -1, 0, 2999, 3000, 3500, 5000 }

C11_LoopWrap ==
    (isLoop /\ SelDuration(State) > 0) =>
        LET d == SelDuration(State)
        IN /\ \A x \in LoopPositions \cup { getEffectiveRaw(State), tickRaw(State) } :
                LET norm == normalizeForDisplay(State, x, d)
                    s == paintFromRaw(State, x)
                IN /\ norm.display = JsRem(JsRem(x, d) + d, d)
                   /\ norm.display >= 0 /\ norm.display < d
                   /\ ~norm.eof
                   /\ s.displayMs = norm.display
                   /\ s.isPlayingUI = isPlayingUI
                   /\ ~Wrote(s, "pStopTrig")
           /\ d = 3000 => /\ normalizeForDisplay(State, 3500, d).display = 500
                          /\ normalizeForDisplay(State, -200, d).display = 2800
           /\ LET s == tick(State)
              IN s.isPlayingUI = isPlayingUI /\ ~Wrote(s, "pStopTrig")

C11_Witness ==
    /\ isLoop /\ isPlayingUI /\ SelDuration(State) = 3000
    /\ getEffectiveRaw(State) = 7000 /\ displayMs = 1000

\* The position that the extrapolation from the anchor gives at the rate of
\* the device rate parameter.
Extrapolated(s) ==
    s.anchorRawMs + Max2(0, s.ctxTime - s.anchorCtxTime) * s.pRate

Stale(s) == s.isPlayingUI /\ HasItem(s) /\ s.now - s.lastPortAt >= PORT_FRESH_MS

\* C12.  Stale-telemetry extrapolation: while Playing with telemetry older than
\* PORT_FRESH_MS, a tick displays the normalisation of anchor + elapsed * rate,
\* rate being the value of the rate parameter, for every rate, 0 and negative
\* rates included.
C12_StaleExtrapolation ==
    Stale(State) =>
        tick(State).displayMs =
            paintFromRaw(State, Extrapolated(State)).displayMs

\* What C12 states, for every rate but 0.
C12_NonZeroRate == pRate # 0 => C12_StaleExtrapolation

\* C13.  Forward end-of-media on a clip of 5000 ms at rate 1, loop disabled,
\* Playing: after a report of a position >= 5000 - END_EPS_MS (4997) the next
\* tick leaves Playing, displays 0 and has pulsed the stop trigger exactly once;
\* after a report of 4990 the next tick stays Playing and displays 4990.
ForwardOn5000 ==
    /\ SelDuration(State) = 5000 /\ pRate = 1 /\ ~isLoop /\ isPlayingUI
    /\ portOffsetMs = 0

C13_ForwardExampleAtEps ==
    ForwardOn5000 =>
        /\ \A v \in { 5000 - END_EPS_MS, 4998, 5000, 7000 } :
              LET s == tick(onPlayhead(State, v))
              IN /\ ~s.isPlayingUI /\ s.displayMs = 0
                 /\ Writes(s, "pStopTrig") = 1
                 /\ ~Wrote(tick(After(s, 0)), "pStopTrig")
        /\ \A v \in { 4990, 5000 - END_EPS_MS - 1 } :
              LET s == tick(onPlayhead(State, v))
              IN s.isPlayingUI /\ s.displayMs = v /\ ~Wrote(s, "pStopTrig")

C13_Witness ==
    /\ SelDuration(State) = 5000 /\ pRate = 1 /\ ~isLoop
    /\ portPlayheadMs = 7000 /\ portOffsetMs = 0
    /\ ~isPlayingUI /\ displayMs = 0 /\ tickStops = 1 /\ WroteNow("pStopTrig")

\* C13 as stated: a report of 4990 makes the next tick leave Playing, display
\* 0 and pulse the stop trigger once.
C13_ForwardExample4990 ==
    ForwardOn5000 =>
        LET s == tick(onPlayhead(State, 4990))
        IN ~s.isPlayingUI /\ s.displayMs = 0 /\ Writes(s, "pStopTrig") = 1

\* The position that a seek to fraction num / SeekDen of the bar asks for.
SeekTarget(s, num) == (clamp01num(num, SeekDen) * SelDuration(s)) \div SeekDen

CanSeek == hasJumpTo /\ HasItem(State) /\ SelDuration(State) > 0

\* C14.  Seek target clamp: for every fraction of the progress bar, 1 included,
\* the position written to the jumpto parameter lies in [0, durationMs - 1].
C14_SeekClamp ==
    CanSeek =>
        \A num \in SeekFracs :
            LET s == seekToFrac(State, num, isPlayingUI)
            IN \A k \in 1..Len(s.log) :
                  s.log[k].param = "pJumpTo" =>
                      (s.log[k].value >= 0 /\ s.log[k].value <= SelDuration(State) - 1)

\* What the seek does guarantee: one write, of a position in [0, durationMs].
C14_WithinDuration ==
    CanSeek =>
        \A num \in SeekFracs :
            LET s == seekToFrac(State, num, isPlayingUI)
            IN /\ Writes(s, "pJumpTo") = 1
               /\ \A k \in 1..Len(s.log) :
                     s.log[k].param = "pJumpTo" =>
                         (s.log[k].value >= 0 /\ s.log[k].value <= SelDuration(State))

\* C15.  Seek while Playing keeps playing: whatever the target and the rate,
\* isPlaying stays true, no stop pulse is fired and the target is displayed at
\* once.
C15_SeekWhilePlaying ==
    (CanSeek /\ isPlayingUI) =>
        \A num \in SeekFracs :
            LET s == seekToFrac(State, num, TRUE)
            IN /\ s.isPlayingUI
               /\ ~Wrote(s, "pStopTrig")
               /\ s.displayMs = SeekTarget(State, num)

\* What C15 states of isPlaying alone.
C15_StaysPlaying ==
    (CanSeek /\ isPlayingUI) =>
        \A num \in SeekFracs : seekToFrac(State, num, TRUE).isPlayingUI

\* C16.  Seek while Idle: the target is displayed and still displayed after the
\* next tick, isPlaying stays false, and neither the seek nor the tick pulses
\* the play or the stop trigger.
C16_SeekWhileIdle ==
    (CanSeek /\ ~isPlayingUI) =>
        \A num \in SeekFracs :
            LET s == seekToFrac(State, num, FALSE)
                n == tick(After(s, 0))
            IN /\ s.displayMs = SeekTarget(State, num)
               /\ n.displayMs = SeekTarget(State, num)
               /\ ~s.isPlayingUI /\ ~n.isPlayingUI
               /\ ~Wrote(s, "pPlayTrig") /\ ~Wrote(s, "pStopTrig")
               /\ ~Wrote(n, "pPlayTrig") /\ ~Wrote(n, "pStopTrig")

\* What C16 states of isPlaying and of the play trigger alone.
C16_StaysIdle ==
    (CanSeek /\ ~isPlayingUI) =>
        \A num \in SeekFracs :
            LET s == seekToFrac(State, num, FALSE)
                n == tick(After(s, 0))
            IN /\ ~s.isPlayingUI /\ ~n.isPlayingUI
               /\ ~Wrote(s, "pPlayTrig") /\ ~Wrote(n, "pPlayTrig")

SignFlips(from, to) == (from >= 0 /\ to < 0) \/ (from < 0 /\ to >= 0)

\* C17.  Rate sign flip: a change of the rate made while Playing that flips its
\* sign writes a seek, to a position inside [0, durationMs] of the current
\* clip; a change made while Idle, or without a flip, writes no seek.
C17_RateSignFlip ==
    CanSeek =>
        \A v \in Rates :
            LET s == setRate(State, v)
            IN IF isPlayingUI /\ SignFlips(pRate, v)
               THEN /\ Wrote(s, "pJumpTo")
                    /\ \A k \in 1..Len(s.log) :
                          s.log[k].param = "pJumpTo" =>
                              (s.log[k].value >= 0 /\ s.log[k].value <= SelDuration(State))
               ELSE ~Wrote(s, "pJumpTo")

\* What C17 states of the changes that are no flip while Playing.
C17_NoSeekOtherwise ==
    \A v \in Rates :
        ~(isPlayingUI /\ SignFlips(pRate, v)) => ~Wrote(setRate(State, v), "pJumpTo")

\* What C17 states, of updateRate of the Speak & Spell engine, for clips of
\* the durations of the playlist and for a clip shorter than FLIP_MARGIN_MS.
RateRecords ==
    [ rate : Rates, pRate : Rates, isPlaying : BOOLEAN, currentIndex : { -1, 0 },
      durationMs : { 50, 3000, 5000 }, jumpto : { 0 }, seeks : { 0 } ]

C17_SpeakSpell ==
    \A r \in RateRecords, v \in Rates :
        LET u == updateRate(r, v)
        IN IF r.isPlaying /\ r.currentIndex >= 0 /\ SignFlips(r.rate, v)
           THEN /\ u.seeks = 1
                /\ u.jumpto >= 0 /\ u.jumpto <= r.durationMs
                /\ (v < 0) => u.jumpto >= r.durationMs - FLIP_MARGIN_MS
                /\ (v >= 0) => u.jumpto <= FLIP_MARGIN_MS
           ELSE u.seeks = 0

C17_SpeakSpellLongClips ==
    \A r \in { q \in RateRecords : q.durationMs >= FLIP_MARGIN_MS }, v \in Rates :
        LET u == updateRate(r, v)
        IN IF r.isPlaying /\ r.currentIndex >= 0 /\ SignFlips(r.rate, v)
           THEN u.seeks = 1 /\ u.jumpto >= 0 /\ u.jumpto <= r.durationMs
           ELSE u.seeks = 0

\* C20.  Telemetry anomalies are discarded: a report that is not a finite
\* number (NaN, +/-Infinity, no payload) changes no Timebase field and nothing
\* else, and the displayed position is a number in every reachable state.
C20_AnomaliesDiscarded ==
    /\ \A kind \in NonFinite :
          LET s == messageEvent(State, "playhead", kind, 0)
          IN /\ s.portPlayheadMs = portPlayheadMs
             /\ s.lastPortAt = lastPortAt
             /\ s.portOffsetMs = portOffsetMs
             /\ s.anchorCtxTime = anchorCtxTime
             /\ s.anchorRawMs = anchorRawMs
             /\ s.displayMs = displayMs
             /\ s = State
    /\ displayMs \in Int
    /\ getEffectiveRaw(State) \in Int

C20_Witness ==
    /\ recent = << "dropped" >>
    /\ isPlayingUI /\ portPlayheadMs = 1000 /\ lastPortAt = now /\ displayMs = 1000

\* What an operation changes besides the device: isPlaying, the loop flag, the
\* selection, the Timebase, the displayed position and the readouts.
Logical(s) ==
    << s.isPlayingUI, s.isLoop, s.selectedIdx, s.portPlayheadMs, s.lastPortAt,
       s.portOffsetMs, s.anchorCtxTime, s.anchorRawMs, s.displayMs,
       s.didAutoResetAfterEOF, s.reverseEOFIgnoreUntil, s.rateVal, s.volVal >>

NoFault(s) == [ s EXCEPT !.faulty = { } ]

\* f is the outcome of an operation with writes that throw, g its outcome
\* with every write succeeding.
BestEffort(f, g) == ~f.threw /\ Logical(f) = Logical(g)

TransportBestEffort ==
    /\ \A idx \in Idx :
          BestEffort(setSelected(State, idx), setSelected(NoFault(State), idx))
    /\ BestEffort(playContinue(State), playContinue(NoFault(State)))
    /\ BestEffort(stopNow(State), stopNow(NoFault(State)))
    /\ BestEffort(toggleLoop(State), toggleLoop(NoFault(State)))
    /\ \A num \in SeekFracs :
          BestEffort(seekToFrac(State, num, isPlayingUI),
                     seekToFrac(NoFault(State), num, isPlayingUI))
    /\ BestEffort(tick(State), tick(NoFault(State)))

\* C18.  Best-effort device writes: when the write of a device parameter
\* throws, no exception leaves the handler, and the handler changes isPlaying,
\* the Timebase, the displayed position and the readouts as it does when the
\* write succeeds.
C18_BestEffortWrites ==
    /\ TransportBestEffort
    /\ \A v \in Rates : BestEffort(setRate(State, v), setRate(NoFault(State), v))
    /\ \A v \in Vols : BestEffort(setVol(State, v), setVol(NoFault(State), v))

\* What C18 states, of every handler but those of the two sliders.
C18_TransportBestEffort == TransportBestEffort

ClaimRequired == { "clipIndex", "rate", "loop", "playTrig", "stopTrig" }

\* Nothing of the transport has happened or can happen.
NoTransport ==
    /\ ~isPlayingUI /\ events = 0 /\ recent = << >> /\ log = << >> /\ timers = { }
    /\ now = StartNow
    /\ pPlayTrig = 0 /\ pStopTrig = 0
    /\ ~ENABLED Next

\* Select, play, stop and the loop toggle do what they do on a full device.
TransportWorks ==
    /\ \A idx \in 0..(Len(items) - 1) :
          LET s == setSelected(State, idx)
          IN s.selectedIdx = idx /\ s.pClipIndex = idx /\ Wrote(s, "pClipIndex")
    /\ LET s == playContinue(State)
       IN s.isPlayingUI /\ Wrote(s, "pPlayTrig") /\ s.pPlayTrig = 1
    /\ LET s == stopNow(State)
       IN ~s.isPlayingUI /\ Wrote(s, "pStopTrig") /\ s.pStopTrig = 1
    /\ LET s == toggleLoop(State)
       IN s.isLoop = ~isLoop /\ Wrote(s, "pLoop") /\ s.pLoop = (IF isLoop THEN 0 ELSE 1)

\* C19.  Required and optional parameters: when the track-index, rate, loop,
\* play-trigger or stop-trigger parameter is missing, initialisation fails and
\* there is no transport; when only jumpto is missing it succeeds, every seek
\* is a no-op, and select, play, stop and the loop toggle work.
C19_RequiredParams ==
    /\ (\E id \in ClaimRequired : id \notin params) => (phase = "failed" /\ NoTransport)
    /\ params = ParamIds \ { "jumpto" } =>
          /\ phase = "ready"
          /\ \A num \in SeekFracs, b \in BOOLEAN : seekToFrac(State, num, b) = State
          /\ TransportWorks
    /\ params = ParamIds => (phase = "ready" /\ hasJumpTo /\ TransportWorks)

C19_Witness ==
    /\ params = ParamIds \ { "jumpto" } /\ phase = "ready"
    /\ isPlayingUI /\ isLoop /\ selectedIdx = 1 /\ pClipIndex = 1 /\ pLoop = 1
    /\ events >= 4

\* Handler result s has pulsed the play or the stop trigger.
Fired(s) == Wrote(s, "pPlayTrig") \/ Wrote(s, "pStopTrig")

\* Handler results a and b show the same position, agree on isPlaying and have
\* made the same device writes.
SameOutcome(a, b) ==
    a.displayMs = b.displayMs /\ a.isPlayingUI = b.isPlayingUI /\ a.log = b.log

\* C21.  Telemetry during Idle is harmless: while isPlaying is false a report
\* does not set isPlaying, fires no trigger and leaves the displayed position
\* alone, and the next tick and the next loop toggle made while still Idle
\* display the position and make the device writes that they make when no
\* report has arrived.
C21_IdleTelemetryHarmless ==
    ~isPlayingUI =>
        \A v \in TelemetryVals :
            LET s == messageEvent(State, "playhead", "finite", v)
            IN /\ ~s.isPlayingUI /\ ~Fired(s) /\ s.displayMs = displayMs
               /\ SameOutcome(tick(s), tick(State))
               /\ SameOutcome(toggleLoop(s), toggleLoop(State))

\* What C21 states of the report itself and of the next tick.
C21_ReportAndTick ==
    ~isPlayingUI =>
        \A v \in TelemetryVals :
            LET s == messageEvent(State, "playhead", "finite", v)
            IN /\ ~s.isPlayingUI /\ ~Fired(s) /\ s.displayMs = displayMs
               /\ SameOutcome(tick(s), tick(State))

\* C22.  Play is always responsive: in every reachable state with a selected
\* clip (after an end-of-media auto-reset, after Stop, after a device write
\* that failed, while Playing), with the context running and a play trigger
\* that can be written, playFromBeginning ends with isPlaying true and the play
\* trigger pulsed, and lets no exception escape.
C22_PlayResponsive ==
    (HasItem(State) /\ ctxRunning /\ "pPlayTrig" \notin faulty) =>
        LET s == playFromBeginning(State)
        IN /\ s.isPlayingUI
           /\ Wrote(s, "pPlayTrig") /\ s.pPlayTrig = 1
           /\ ~s.threw
           /\ s.displayMs = 0

C22_Witness ==
    /\ Len(recent) >= 2
    /\ recent[Len(recent)] = "play" /\ recent[Len(recent) - 1] = "play"
    /\ "pJumpTo" \in faulty /\ hasJumpTo /\ pRate < 0 /\ pJumpTo = << 0, 1 >>
    /\ isPlayingUI /\ WroteNow("pPlayTrig") /\ pPlayTrig = 1

\* C23.  No operation on an empty collection: with no clip loaded no track is
\* selected, the tick loop does not run, and playFromBeginning pulses no
\* trigger and does not set isPlaying.
C23_NoOperationOnEmpty ==
    Len(items) = 0 =>
        /\ ~HasItem(State)
        /\ ~ENABLED Tick
        /\ LET s == playFromBeginning(State)
           IN ~s.isPlayingUI /\ ~Fired(s)
        /\ ~isPlayingUI /\ pPlayTrig = 0

\* What C23 states of the selection.
C23_NothingSelected ==
    Len(items) = 0 => (~HasItem(State) /\ SelDuration(State) = 0 /\ displayMs = 0)

\* The number of times that name occurs in seq.
Count(seq, name) == Cardinality({ k \in 1..Len(seq) : seq[k] = name })

\* seq without the elements that fail Keep, in seq's order.
RECURSIVE Filter(_, _)
Filter(seq, keep) ==
    IF seq = << >> THEN << >>
    ELSE (IF Head(seq) \in keep THEN << Head(seq) >> ELSE << >>) \o Filter(Tail(seq), keep)

Range(seq) == { seq[k] : k \in 1..Len(seq) }

\* C24.  Persisted-order merge: for every manifest M of distinct names and
\* every persisted array S, the loaded order is the elements of S that occur in
\* M, in S's order, followed by the elements of M that do not occur in S, in
\* M's order; it contains every item of the manifest exactly once and nothing
\* that the manifest does not list.  Stated of the inputs of the current state
\* and of the order loaded from them at the next reload.
C24_PersistedOrderMerge ==
    LET loaded == reload(State).items
    IN /\ loaded = Filter(saved, Range(manifest)) \o Filter(manifest, Names \ Range(saved))
       /\ \A n \in Range(manifest) : Count(loaded, n) = 1
       /\ Range(loaded) \subseteq Range(manifest)

\* What C24 states, for a persisted array without duplicates.
C24_DistinctSaved == Distinct(saved) => C24_PersistedOrderMerge

\* What C24 states of the order alone.
C24_OrderOnly ==
    reload(State).items =
        Filter(saved, Range(manifest)) \o Filter(manifest, Names \ Range(saved))

\* The next tick after a report of v is delivered in s, a state that a reset
\* has just produced, shows what it shows without the report, and handles no
\* end of the media.
ReportIgnored(s, v) ==
    LET base == After(s, 0)
        n == tick(messageEvent(base, "playhead", "finite", v))
    IN /\ n.displayMs = tick(base).displayMs
       /\ n.isPlayingUI = s.isPlayingUI
       /\ ~Wrote(n, "pStopTrig")

\* C26.  A reset invalidates in-flight telemetry: while a playback is running,
\* after playFromBeginning, Stop or a track selection, a report of a position
\* of that playback delivered after the reset does not change what the next
\* tick displays and causes no end-of-media handling (stop pulse, isPlaying
\* false).
C26_ResetInvalidatesTelemetry ==
    isPlayingUI =>
        \A v \in TelemetryVals :
            /\ ReportIgnored(playContinue(State), v)
            /\ ReportIgnored(stopNow(State), v)
            /\ \A idx \in Idx : ReportIgnored(setSelected(State, idx), v)

\* What C26 states of Stop and of a track selection.
C26_AfterStopOrSelect ==
    isPlayingUI =>
        \A v \in TelemetryVals :
            /\ ReportIgnored(stopNow(State), v)
            /\ \A idx \in Idx : ReportIgnored(setSelected(State, idx), v)

\* The revert of the reverse-start loop assist that a Play made now schedules.
AssistRevert(s) == [ kind |-> "pLoop", due |-> s.now + REVERSE_LOOP_ASSIST_MS ]

\* A Play in s starts the reverse-start loop assist, and no earlier revert is
\* pending.
StartsAssist(s) ==
    /\ s.pRate < 0 /\ ~s.isLoop /\ ~s.hasJumpTo /\ "pLoop" \notin s.faulty
    /\ \A t \in s.timers : t.kind # "pLoop"

\* The revert scheduled by the Play that led to state p does not change the
\* device loop parameter when it fires after operation result s, made d ms
\* after the Play.
RevertCancelled(p, s, d) ==
    LET due == After(s, REVERSE_LOOP_ASSIST_MS - d)
    IN /\ AssistRevert(p) \in s.timers
       /\ timerFired(due, AssistRevert(p)).pLoop = due.pLoop

\* C27.  Deferred corrections are cancelled by superseding operations: the
\* revert of the reverse-start loop assist scheduled by a Play does not change
\* the device loop parameter when a track selection, a Stop or another Play
\* has been made before it fires.
C27_RevertCancelled ==
    StartsAssist(State) =>
        \A d \in { 0, StepMs } :
            LET p == playContinue(State)
                q == After(p, d)
            IN /\ \A idx \in Idx : RevertCancelled(State, setSelected(q, idx), d)
               /\ RevertCancelled(State, stopNow(q), d)
               /\ RevertCancelled(State, playContinue(q), d)

\* What does hold: the revert stays pending after the superseding operation.
C27_RevertStaysPending ==
    StartsAssist(State) =>
        \A d \in { 0, StepMs } :
            LET q == After(playContinue(State), d)
            IN /\ \A idx \in Idx : AssistRevert(State) \in setSelected(q, idx).timers
               /\ AssistRevert(State) \in stopNow(q).timers
               /\ AssistRevert(State) \in playContinue(q).timers

LoopParamOf(flag) == IF flag THEN 1 ELSE 0

\* C28.  The forced reverse-start loop is transient and invisible: Play and the
\* revert timer never change the user-visible loop flag, and whenever no revert
\* is pending the device loop parameter equals the flag (1 iff loop is
\* enabled), loop toggles made while a revert is pending included.
C28_ForcedLoopInvisible ==
    /\ playContinue(State).isLoop = isLoop
    /\ \A t \in timers : timerFired(State, t).isLoop = isLoop
    /\ (\A t \in timers : t.kind # "pLoop") => pLoop = LoopParamOf(isLoop)

\* What C28 states of the user-visible flag, and of the device parameter when
\* no loop toggle is made while a revert is pending.
C28_FlagUntouched ==
    /\ playContinue(State).isLoop = isLoop
    /\ \A t \in timers : timerFired(State, t).isLoop = isLoop
    /\ toggleLoop(State).pLoop = LoopParamOf(~isLoop)

\* C25.  Upload before play (Speak & Spell engine): whenever the play trigger
\* is fired, no upload is pending and the samples in the device's buffer are
\* those of the current clip; so too after nextTrack and prevTrack during
\* playback.
C25_UploadBeforePlay ==
    SsWrote(ss, "playTrig") => (ss.uploads = << >> /\ ss.buffer = ss.currentIndex)

\* The callback that play() schedules in state r.
PlayCallback(r) == CHOOSE t \in ss_play(r).timers : t \notin r.timers

\* C29.  Stop cancels a pending deferred start (Speak & Spell engine): when
\* stop() runs after play() and before the callback that play() has scheduled,
\* the callback fires no play trigger, leaves isPlaying false and starts no
\* playhead polling.
C29_StopCancelsDeferredStart ==
    LET t == PlayCallback(SsCleared)
        stopped == ss_stop(ss_play(SsCleared))
        f == ss_timerFired([ stopped EXCEPT !.now = t.due, !.log = << >> ], t)
    IN /\ ~stopped.isPlaying /\ ~stopped.polling
       /\ ~SsWrote(f, "playTrig") /\ ~f.isPlaying /\ ~f.polling

\* What C29 states of stop() itself.
C29_StopStops ==
    LET stopped == ss_stop(ss_play(SsCleared))
    IN ~stopped.isPlaying /\ ~stopped.polling /\ SsWrote(stopped, "stopTrig")

\* A late report leaves the stopped state r as Stop or the selection left it.
StaysStopped(r, ms) ==
    LET n == v1_messageEvent([ r EXCEPT !.log = << >> ], ms)
    IN ~n.isPlaying /\ n.endedAndStopped

\* C30.  Stop stays stopped under late telemetry (v1.0.1 engine): after Stop
\* and after a track selection isPlaying is false and endedAndStopped is true,
\* and a playhead report of a positive position delivered afterwards leaves
\* both as they are.
C30_StopStaysStopped ==
    /\ LET s == doStop(V1Cleared) IN ~s.isPlaying /\ s.endedAndStopped
    /\ \A ms \in { m \in V1Reports : m > 0 } :
          /\ StaysStopped(doStop(V1Cleared), ms)
          /\ \A idx \in 0..(Len(V1Items) - 1) :
                StaysStopped(selectByIndex(V1Cleared, idx), ms)

\* What C30 states of Stop and of the selection themselves, and of reports of
\* at most 1 ms.
C30_StoppedUntilReport ==
    /\ LET s == doStop(V1Cleared) IN ~s.isPlaying /\ s.endedAndStopped
    /\ \A idx \in 0..(Len(V1Items) - 1) :
          LET s == selectByIndex(V1Cleared, idx) IN ~s.isPlaying /\ s.endedAndStopped
    /\ \A ms \in { m \in V1Reports : m <= 1 } : StaysStopped(doStop(V1Cleared), ms)

\* The report of ms that follows the handler's outcome r.
V1Report(r, ms) == v1_messageEvent([ r EXCEPT !.log = << >> ], ms)

\* C31.  Re-arm survives the device snapping back to 0 (v1.0.1 engine): Play
\* pressed while playing forward with loop off, a positive position reported
\* before, restarts playback, and the report of position 0 that follows is not
\* taken for the end of the media: isPlaying stays true and no stop pulse is
\* fired.
C31_RearmSurvivesSnapBack ==
    (v1.isPlaying /\ v1.pRate >= 0 /\ v1.pLoop = 0 /\ v1.lastPlayheadMs > 0) =>
        LET n == V1Report(doPlay(V1Cleared), 0)
        IN n.isPlaying /\ ~Wrote(n, "pStopTrig")

\* What C31 states of Play itself: it seeks to 0, pulses the play trigger and
\* leaves isPlaying true.
C31_PlayRestarts ==
    (v1.isPlaying /\ v1.pRate >= 0 /\ v1.pLoop = 0 /\ v1.lastPlayheadMs > 0) =>
        LET p == doPlay(V1Cleared)
        IN p.isPlaying /\ ~p.endedAndStopped /\ p.pJumpTo = 0
              /\ Wrote(p, "pPlayTrig") /\ ~Wrote(p, "pStopTrig")

\* C39.  Flag consistency (v1.0.1 engine): isPlaying and endedAndStopped are
\* never both true, whatever the order of Play, Stop, selections, loop toggles
\* and playhead reports.
C39_FlagsExclusive == ~(v1.isPlaying /\ v1.endedAndStopped)

\* Play, a loop toggle and a report have acted; a Stop followed by a late report
\* gives the same flags.
C39_Witness ==
    /\ v1.isPlaying /\ ~v1.endedAndStopped
    /\ v1.pLoop = 1 /\ v1.lastPlayheadMs > 0
    /\ LET n == V1Report(doStop(V1Cleared), 1000)
       IN n.isPlaying /\ ~n.endedAndStopped

\* The duration of the call is a finite number above min (in units).
DurationAbove(min) == IsFiniteNumber(jump.dur) /\ NumberOf(jump.dur) > min

InJumpToRange == jump.value >= JUMPTO_MIN_MS * Scale /\ jump.value <= JUMPTO_MAX_MS * Scale

\* C40 as stated.  Seek-value clamp helper (v1.0.1 engine): every value written
\* to the jumpto parameter is within [0, 600000]; when the clip duration is
\* finite and > 0 it is at most durationMs - 1; a requested value that is not
\* finite is written as 0.
C40_ClampToKnownDuration ==
    /\ InJumpToRange
    /\ DurationAbove(0) => jump.value <= NumberOf(jump.dur) - Scale
    /\ ~IsFiniteNumber(jump.ms) => jump.value = 0

\* C40, amended: the same, for a clip duration that is finite and > 1 ms.
C40_ClampToDurationAbove1 ==
    /\ InJumpToRange
    /\ DurationAbove(Scale) => jump.value <= NumberOf(jump.dur) - Scale
    /\ ~IsFiniteNumber(jump.ms) => jump.value = 0

\* A request beyond the end of a clip of 3000.5 ms is written as 2999 ms.
C40_Witness ==
    /\ jump.dur = Units(3000 * Scale + 1)
    /\ jump.ms = Units(JUMPTO_MAX_MS * Scale + 1)
    /\ jump.value = 2999 * Scale

\* C32.  Commands take effect in the order they were issued: when Stop or a
\* track selection was handled after a Play that still waits for
\* context.resume(), the Play that then continues does not leave the engine
\* Playing with the play trigger fired; the state stays Idle.
C32_LaterCommandWins ==
    (~ctxRunning /\ pendingPlay > 0 /\ LastOp \in { "stop", "select" }) =>
        LET s == contextResumed(State)
        IN ~s.isPlayingUI /\ ~Wrote(s, "pPlayTrig")

\* What C32 states of Stop and of the selection themselves: handled while a
\* Play waits, they leave the engine Idle at once.
C32_IdleWhileWaiting ==
    (~ctxRunning /\ pendingPlay > 0) =>
        /\ ~stopNow(State).isPlayingUI
        /\ \A sel \in { setSelected(State, idx) : idx \in Idx } : ~sel.isPlayingUI

\* The tick that follows state s shows at least the position that s shows, or
\* one of the two states is not Playing.
NotBackwards(s, next) ==
    LET n == tick(next) IN (s.isPlayingUI /\ n.isPlayingUI) => n.displayMs >= s.displayMs

\* A Playing episode has just begun (no report, no other operation since Play)
\* at a positive rate with loop off.
EpisodeBegun == LastOp = "play" /\ isPlayingUI /\ ~isLoop /\ pRate > 0 /\ HasItem(State)

\* C33.  Monotone display within a track: in a Playing episode at a constant
\* positive rate, loop off, no seek, the reports not decreasing, the position
\* shown never decreases from one tick to the next, also when the one tick
\* extrapolates and the other paints a fresh report.
C33_MonotoneDisplay ==
    EpisodeBegun =>
        \A d \in { 0, StepMs }, v \in TelemetryVals :
            LET first == tick(After(State, d))
            IN /\ NotBackwards(first, After(first, StepMs))
               /\ NotBackwards(first, onPlayhead(After(first, 0), v))

\* What C33 states of two ticks that both extrapolate, and of two ticks that
\* both paint fresh reports, the second report not smaller than the first.
C33_MonotoneSameSource ==
    EpisodeBegun =>
        /\ \A d \in { 0, StepMs } :
              LET first == tick(After(State, d))
              IN NotBackwards(first, After(first, StepMs))
        /\ \A v \in TelemetryVals : \A w \in { x \in TelemetryVals : x >= v } :
              LET first == tick(onPlayhead(After(State, 0), v))
              IN NotBackwards(first, onPlayhead(After(first, StepMs), w))

\* C34.  Display range invariant: in every reachable state the position shown
\* is within [0, durationMs] of the selected clip, and within [0, durationMs)
\* when loop is on (it has then been computed with loop enabled: the loop
\* handler repaints).
C34_DisplayInRange ==
    /\ displayMs >= 0
    /\ displayMs <= SelDuration(State)
    /\ (isLoop /\ HasItem(State)) => displayMs < SelDuration(State)

\* The position shown was wrapped from a position beyond the end with loop on,
\* or clamped to the end of the clip with loop off.
C34_Witness ==
    /\ HasItem(State)
    /\ \/ /\ isLoop /\ displayMs > 0
          /\ getEffectiveRaw(State) > SelDuration(State)
          /\ displayMs = JsRem(getEffectiveRaw(State), SelDuration(State))
       \/ /\ ~isLoop /\ isPlayingUI /\ pRate < 0
          /\ getEffectiveRaw(State) > SelDuration(State)
          /\ displayMs = SelDuration(State)

\* C35.  Selected index stays in bounds: with a non-empty clip collection,
\* 0 <= selectedIdx < number of clips in every reachable state, and after a
\* click on any row, an arrow key at either end of the list and every drop.
C35_SelectedInBounds ==
    Len(items) > 0 =>
        /\ HasItem(State)
        /\ HasItem(setSelected(State, selectedIdx - 1))
        /\ HasItem(setSelected(State, selectedIdx + 1))
        /\ \A from \in 0..(Len(items) - 1), to \in 0..(Len(items) - 1) :
              HasItem(dropRow(State, from, to))

\* Rows have been dragged, the last row is selected, and Arrow Down leaves it
\* selected.
C35_Witness ==
    /\ items # ClipOrderList
    /\ LastOp = "select"
    /\ selectedIdx = Len(items) - 1
    /\ setSelected(State, selectedIdx + 1).selectedIdx = selectedIdx

Triggers == { "pPlayTrig", "pStopTrig" }

\* The reset of a pulse of trigger p is pending.
PulsePending(p) == \E t \in timers : t.kind = p

\* Handler outcome s fired trigger p from the current state with a rising edge:
\* the trigger read 0 before, reads 1 now, and its reset is due one pulse width
\* from now.
RisingEdge(s, p) ==
    Wrote(s, p) =>
        /\ State[p] = 0
        /\ s[p] = 1
        /\ [ kind |-> p, due |-> now + PULSE_MS ] \in s.timers

\* C38.  Trigger firing: every firing of a trigger (by a tick at the end of the
\* media, by Stop, by Play) is a rising edge from 0 to 1 that is held for the
\* pulse width of 20 ms counted from that firing, also when the trigger was
\* fired less than a pulse width before; and a trigger with no reset pending
\* reads 0.
C38_TriggerFiring ==
    /\ \A p \in Triggers :
          /\ RisingEdge(tick(State), p)
          /\ RisingEdge(stopNow(State), p)
          /\ RisingEdge(playFromBeginning(State), p)
    /\ \A p \in Triggers : ~PulsePending(p) => State[p] = 0

\* What C38 states of a trigger that is fired while it reads 0, and of the
\* triggers with no reset pending.
C38_FiringFromLow ==
    /\ \A p \in Triggers :
          State[p] = 0 =>
              /\ RisingEdge(tick(State), p)
              /\ RisingEdge(stopNow(State), p)
              /\ RisingEdge(playFromBeginning(State), p)
    /\ \A p \in Triggers : ~PulsePending(p) => State[p] = 0

\* The clip that currentIndex of playlist r points at ("none" for -1).
CurrentClip(r) == IF r.currentIndex < 0 THEN "none" ELSE r.items[r.currentIndex + 1]

\* C37.  Index-arithmetic reorder keeps the current clip: for every dragged
\* row, every drop target that onDragEnd accepts and every currentIndex,
\* reorderPlaylist leaves currentIndex pointing at the same clip: at the moved
\* clip if that was current, shifted by exactly one when the move crosses it,
\* unchanged otherwise.
C37_ReorderKeepsCurrent ==
    \A fromIndex \in 0..(Len(pl.items) - 1) :
        \A targetIndex \in { x \in DropTargets(startDrag(pl, fromIndex)) :
                                Accepted(fromIndex, x) } :
            LET r == reorderPlaylist(pl, fromIndex, targetIndex)
                cur == pl.currentIndex
                to == IF targetIndex > fromIndex THEN targetIndex - 1 ELSE targetIndex
            IN /\ CurrentClip(r) = CurrentClip(pl)
               /\ r.items[to + 1] = pl.items[fromIndex + 1]
               /\ r.currentIndex =
                     IF cur = fromIndex THEN to
                     ELSE IF fromIndex < cur /\ cur <= to THEN cur - 1
                     ELSE IF to <= cur /\ cur < fromIndex THEN cur + 1
                     ELSE cur

\* Rows have been reordered, a clip is current, and the row being dragged from
\* below it can be dropped above it: currentIndex moves up by one.
C37_Witness ==
    /\ pl.items # PlItems
    /\ pl.currentIndex >= 0
    /\ pl.dragIndex > pl.currentIndex
    /\ onDragEnd(pl, 0).currentIndex = pl.currentIndex + 1
    /\ CurrentClip(onDragEnd(pl, 0)) = CurrentClip(pl)

\* The last handler fired the play trigger or wrote the seek parameter.
LedOperated == LedFired(led, "playTrig") \/ Wrote(led, "jumpto")

\* C36.  Initialization gate (LED-ladder engine): until initPlaylistUI has
\* completed with at least one clip loaded, no input of the user fires the play
\* trigger or writes the seek parameter; after a load failure that stays so.
C36_InitGate == ~led.isInitialized => ~LedOperated

\* What C36 states of the play trigger, and of the engine before any input has
\* selected a clip.
C36_PlayGate ==
    /\ ~led.isInitialized => ~LedFired(led, "playTrig")
    /\ (~led.isInitialized /\ led.currentIndex < 0) => ~LedOperated
    /\ led.isInitialized => (Len(led.items) > 0 /\ led.stage = "ready")
    /\ led.stage = "failed" => ~led.isInitialized

====
